---- MODULE Spec2Model ----
(***************************************************************************)
(* A model of the xlNumba / pyxloptimizer compiler: the Shape model, the   *)
(* optimisation pipeline driver, and the main compiler loop with its       *)
(* frames, memo table and IR nodes.                                        *)
(*                                                                         *)
(* Specifications that share the variables below:                          *)
(*   SpecShape  - Shape.merge applied to shapes drawn from a bounded set   *)
(*   SpecOpt    - optimize_graph for every value of disable_optimizations  *)
(*   Spec       - Compiler.add_output / add_input / _gen_ast and the main  *)
(*                loop over a bounded family of workbooks                  *)
(*   FairSpec   - Spec with the fairness of the main loop                  *)
(*   SpecPass   - the optimisation passes and ast_function_body applied to *)
(*                a bounded family of graphs                               *)
(*   SpecShared - the same steps on graphs with stochastic nodes and nodes *)
(*                that are used twice                                      *)
(*   SpecReplace - Node.replace_in_graph applied to a node of such a graph *)
(*   SpecTokens - the main loop on one output cell whose formula is drawn  *)
(*                from bounded sets of token streams                       *)
(* Each specification keeps the variables of the others at their idle      *)
(* values.                                                                 *)
(***************************************************************************)
EXTENDS Integers, Sequences, FiniteSets, TLC

VARIABLES
    \* ---- Shape.merge (SpecShape)
    shA, shB, shC,        \* the three input shapes
    mAB, mBA,             \* merge(a, b), merge(b, a)
    mAB_C, mA_BC,         \* merge(merge(a, b), c), merge(a, merge(b, c))
    spc,                  \* "start" | "pair" | "triple"
    \* ---- optimize_graph (SpecOpt)
    disable_optimization, \* the caller's flag: a bool or a set of pass names
    optIdx,               \* position of the for loop in OPTIMIZATION_LIST
    passLog,              \* the passes applied to the graph so far, in order
    optPc,                \* "idle" | "loop" | "returned"
    \* ---- Compiler (Spec)
    wb,                   \* the workbook: formula cell -> index into Formulas
    outCalls, inCalls,    \* the number of add_output and add_input calls so far
    outputs,              \* Compiler._outputs: ordered dict name -> reference
    output_cells,         \* Compiler._output_cells: ordered dict reference -> name
    inputs,               \* Compiler._inputs: ordered dict name -> reference
    input_cells,          \* Compiler._input_cells: ordered dict reference -> name
    references,           \* the memo table of _gen_ast: key -> node
    stack,                \* the frame stack of _gen_ast
    nodes,                \* every Node object created so far, by identity
    tokgen,               \* number of Tokenizer runs so far (token identity)
    graph,                \* the Graph built after the loop: <<reference, Output node>>
    result_keys,          \* the keys of the dict the compiled function returns
    pc,                   \* "idle" | "setup" | "loop" | "codegen" | "compiled" | "failed"
    err,                  \* the exception that ended _gen_ast, "" if none
    frameLog,             \* history: the key of every frame constructed, in order
    finalLog,             \* history: <<key, node>> of every frame finalized
    pushLog,              \* history: <<key, node>> of every push_node call
    \* ---- the optimisation passes and ast_function_body (SpecPass)
    passes_run,           \* the passes applied to graph so far, in order
    statement_list,       \* the statements of ast_function_body, <<>> before it ran
    \* ---- one call of a method (SpecReplace), one formula (SpecTokens)
    arg,                  \* the operands of the call or the tokens of the formula, else <<>>
    ret                   \* what the call returned, <<>> before it has

shapeVars == <<shA, shB, shC, mAB, mBA, mAB_C, mA_BC, spc>>
optVars == <<disable_optimization, optIdx, passLog, optPc>>
compVars == <<wb, outCalls, inCalls, outputs, output_cells, inputs, input_cells, references, stack, nodes,
              tokgen, graph, result_keys, pc, err, frameLog, finalLog, pushLog>>
passVars == <<passes_run, statement_list, arg, ret>>
vars == <<shapeVars, optVars, compVars, passVars>>

Max(x, y) == IF x >= y THEN x ELSE y

(***************************************************************************)
(* Shape (shape.py)                                                        *)
(***************************************************************************)
\* The largest height and width of a shape drawn by SpecShape.
MaxDim == 3

\* Shape(height, width): a namedtuple, compared field by field.
Shape(h, w) == [height |-> h, width |-> w]

SCALAR_SHAPE == Shape(1, 1)

is_scalar(s) == s = SCALAR_SHAPE

is_vector(s) == (s.width = 1 /\ s.height > 1) \/ (s.height = 1 /\ s.width > 1)

horizontal(s) == s.width > 1 /\ s.height = 1

vertical(s) == s.width = 1 /\ s.height > 1

size(s) == s.width * s.height

\* The outcome of a merge: a shape, or UnsupportedBroadcastException.
MergeOk(s) == [ok |-> TRUE, shape |-> s]

MergeErr == [ok |-> FALSE, shape |-> Shape(0, 0)]

\* A merge that keeps self's extent where the code takes the maximum.
MergeKeepSelf(self, other) ==
    IF self = other THEN MergeOk(self)
    ELSE IF is_scalar(self) THEN MergeOk(other)
    ELSE IF is_scalar(other) THEN MergeOk(self)
    ELSE IF other.width = self.width /\ (horizontal(self) \/ horizontal(other))
        THEN MergeOk(Shape(self.width, self.height))
    ELSE IF other.height = self.height /\ (vertical(self) \/ vertical(other))
        THEN MergeOk(Shape(self.width, self.height))
    ELSE IF is_vector(self) /\ is_vector(other) /\ vertical(self) # vertical(other)
        THEN MergeOk(Shape(Max(self.width, other.width), Max(self.height, other.height)))
    ELSE MergeErr

\* Shape.merge.  Shape's first field is the height: the three broadcast
\* branches pass a width as the first argument, as the code does.
Merge(self, other) ==
    IF self = other THEN MergeOk(self)
    ELSE IF is_scalar(self) THEN MergeOk(other)
    ELSE IF is_scalar(other) THEN MergeOk(self)
    ELSE IF other.width = self.width /\ (horizontal(self) \/ horizontal(other))
        THEN MergeOk(Shape(self.width, Max(self.height, other.height)))
    ELSE IF other.height = self.height /\ (vertical(self) \/ vertical(other))
        THEN MergeOk(Shape(Max(self.width, other.width), self.height))
    ELSE IF is_vector(self) /\ is_vector(other) /\ vertical(self) # vertical(other)
        THEN MergeOk(Shape(Max(self.width, other.width), Max(self.height, other.height)))
    ELSE MergeErr

\* merge applied to the outcome of an earlier merge: the exception propagates.
MergeL(m, s) == IF m.ok THEN Merge(m.shape, s) ELSE MergeErr

MergeR(s, m) == IF m.ok THEN Merge(s, m.shape) ELSE MergeErr

Shapes == {Shape(h, w) : h \in 1..MaxDim, w \in 1..MaxDim}

ShapeIdle ==
    /\ shA = SCALAR_SHAPE /\ shB = SCALAR_SHAPE /\ shC = SCALAR_SHAPE
    /\ mAB = MergeErr /\ mBA = MergeErr /\ mAB_C = MergeErr /\ mA_BC = MergeErr
    /\ spc = "idle"

ShapeInit ==
    /\ shA \in Shapes /\ shB \in Shapes /\ shC \in Shapes
    /\ mAB = MergeErr /\ mBA = MergeErr /\ mAB_C = MergeErr /\ mA_BC = MergeErr
    /\ spc = "start"

\* a.merge(b) and b.merge(a)
MergePair ==
    /\ spc = "start"
    /\ mAB' = Merge(shA, shB)
    /\ mBA' = Merge(shB, shA)
    /\ spc' = "pair"
    /\ UNCHANGED <<shA, shB, shC, mAB_C, mA_BC>>

\* a.merge(b).merge(c) and a.merge(b.merge(c))
MergeTriple ==
    /\ spc = "pair"
    /\ mAB_C' = MergeL(mAB, shC)
    /\ mA_BC' = MergeR(shA, Merge(shB, shC))
    /\ spc' = "triple"
    /\ UNCHANGED <<shA, shB, shC, mAB, mBA>>

(***************************************************************************)
(* optimize_graph (optimizations/__init__.py)                              *)
(***************************************************************************)
\* A pipeline that runs lazy_conditional before array_inplace.
LazyBeforeInplace == <<"collapse_literals", "merge_array", "lazy_conditional", "array_inplace">>

\* OPTIMIZATION_LIST: a dict, iterated in insertion order.
OPTIMIZATION_LIST == <<"collapse_literals", "merge_array", "array_inplace", "lazy_conditional">>

PassNames == {OPTIMIZATION_LIST[i] : i \in DOMAIN OPTIMIZATION_LIST}

\* A Python value that is a bool or a set of pass names.
PyBool(b) == [isBool |-> TRUE, b |-> b, names |-> {}]

PySet(s) == [isBool |-> FALSE, b |-> FALSE, names |-> s]

\* Python truthiness: a set is true when it is not empty.
Truthy(v) == IF v.isBool THEN v.b ELSE v.names # {}

DisableValues == {PyBool(TRUE), PyBool(FALSE)} \cup {PySet(s) : s \in SUBSET PassNames}

\* The condition of optimize_graph: "not disable_optimization or not disable_optimization".
RunsPass(flag, name) == ~Truthy(flag) \/ ~Truthy(flag)

OptIdle ==
    /\ disable_optimization = PyBool(FALSE)
    /\ optIdx = 0
    /\ passLog = <<>>
    /\ optPc = "idle"

OptInit ==
    /\ disable_optimization \in DisableValues
    /\ optIdx = 1
    /\ passLog = <<>>
    /\ optPc = "loop"

\* One iteration of the for loop whose pass runs.
OptRunPass ==
    /\ optPc = "loop"
    /\ optIdx <= Len(OPTIMIZATION_LIST)
    /\ RunsPass(disable_optimization, OPTIMIZATION_LIST[optIdx])
    /\ passLog' = Append(passLog, OPTIMIZATION_LIST[optIdx])
    /\ optIdx' = optIdx + 1
    /\ UNCHANGED <<disable_optimization, optPc>>

\* One iteration of the for loop whose pass is skipped.
OptSkipPass ==
    /\ optPc = "loop"
    /\ optIdx <= Len(OPTIMIZATION_LIST)
    /\ ~RunsPass(disable_optimization, OPTIMIZATION_LIST[optIdx])
    /\ optIdx' = optIdx + 1
    /\ UNCHANGED <<disable_optimization, passLog, optPc>>

\* The for loop is exhausted: return graph.
OptReturn ==
    /\ optPc = "loop"
    /\ optIdx > Len(OPTIMIZATION_LIST)
    /\ optPc' = "returned"
    /\ UNCHANGED <<disable_optimization, optIdx, passLog>>

(***************************************************************************)
(* Workbooks, references and tokens (excel_reference.py, openpyxl)         *)
(***************************************************************************)
\* The one sheet of the modelled workbooks.
SHEET == "Sheet1"

\* A token of openpyxl's Tokenizer, before it is given an identity.
Tok(type, subtype, value) == [type |-> type, subtype |-> subtype, value |-> value]

RangeTok(a) == Tok("OPERAND", "RANGE", a)

NumTok(v) == Tok("OPERAND", "NUMBER", v)

InfixTok(op) == Tok("OPERATOR-INFIX", "", op)

PrefixTok(op) == Tok("OPERATOR-PREFIX", "", op)

PostfixTok(op) == Tok("OPERATOR-POSTFIX", "", op)

FuncOpen(name) == Tok("FUNC", "OPEN", name)

FuncClose == Tok("FUNC", "CLOSE", ")")

ParenOpen == Tok("PAREN", "OPEN", "(")

ParenClose == Tok("PAREN", "CLOSE", ")")

SepTok == Tok("SEP", "ARG", ",")

WSpaceTok == Tok("WHITE-SPACE", "", " ")

\* The formulas a formula cell of a modelled workbook may hold, as the
\* Tokenizer splits them.
Formulas == <<
    \* 1: =A1+1
    <<RangeTok("A1"), InfixTok("+"), NumTok("1")>>,
    \* 2: =B1*2
    <<RangeTok("B1"), InfixTok("*"), NumTok("2")>>,
    \* 3: =B2
    <<RangeTok("B2")>>,
    \* 4: =SUM(A1:A2)+SUM(A1:A2)
    <<FuncOpen("SUM("), RangeTok("A1:A2"), FuncClose, InfixTok("+"),
      FuncOpen("SUM("), RangeTok("A1:A2"), FuncClose>>,
    \* 5: =(A1+1)*(A1+1)
    <<ParenOpen, RangeTok("A1"), InfixTok("+"), NumTok("1"), ParenClose, InfixTok("*"),
      ParenOpen, RangeTok("A1"), InfixTok("+"), NumTok("1"), ParenClose>>,
    \* 6: =CHOOSE(1, A1:A2+A1:A3)
    <<FuncOpen("CHOOSE("), NumTok("1"), SepTok, WSpaceTok,
      RangeTok("A1:A2"), InfixTok("+"), RangeTok("A1:A3"), FuncClose>>,
    \* 7: =SUM(A1:A2+A1:A3)
    <<FuncOpen("SUM("), RangeTok("A1:A2"), InfixTok("+"), RangeTok("A1:A3"), FuncClose>>,
    \* 8: =ROW()-A1%
    <<FuncOpen("ROW("), FuncClose, InfixTok("-"), RangeTok("A1"), PostfixTok("%")>>,
    \* 9: =-XX(A1)
    <<PrefixTok("-"), FuncOpen("XX("), RangeTok("A1"), FuncClose>>,
    \* 10: =SUM(A1,2)
    <<FuncOpen("SUM("), RangeTok("A1"), SepTok, NumTok("2"), FuncClose>>
>>

\* The cells that hold a formula; every other cell holds a number.
FormulaCells == {"B1", "B2"}

Workbooks == [FormulaCells -> DOMAIN Formulas]

\* ExcelReference: equality and hash read the sheet and the normalised address.
Ref(a) == [sheet |-> SHEET, cell_ref |-> a]

\* ExcelReference.is_range: the address has the form of a range.
is_range(r) == r.cell_ref \in {"A1:A2", "A1:A3", "A2:A3"}

\* ExcelReference.get_cells: the cells of a range, row by row.
get_cells(r) ==
    CASE r.cell_ref = "A1:A2" -> <<Ref("A1"), Ref("A2")>>
      [] r.cell_ref = "A1:A3" -> <<Ref("A1"), Ref("A2"), Ref("A3")>>
      [] r.cell_ref = "A2:A3" -> <<Ref("A2"), Ref("A3")>>
      [] OTHER -> <<>>

\* ExcelReference.shape
RefShape(r) == IF is_range(r) THEN Shape(Len(get_cells(r)), 1) ELSE SCALAR_SHAPE

\* ExcelReference.row
RefRow(r) ==
    CASE r.cell_ref \in {"A1", "B1"} -> 1
      [] r.cell_ref \in {"A2", "B2"} -> 2
      [] OTHER -> 3

\* ExcelReference.data_type: 'f' for a formula cell, 'n' for a number.
RefDataType(r) == IF r.cell_ref \in FormulaCells THEN "f" ELSE "n"

\* ExcelReference.value of a cell that holds a number.
RefValue(r) ==
    CASE r.cell_ref = "A1" -> 4
      [] r.cell_ref = "A2" -> 5
      [] OTHER -> 6

\* ExcelReference.encode_name
encode_name(r) ==
    "sheet1_" \o
    (CASE r.cell_ref = "A1" -> "a1" [] r.cell_ref = "A2" -> "a2" [] r.cell_ref = "A3" -> "a3"
       [] r.cell_ref = "B1" -> "b1" [] r.cell_ref = "B2" -> "b2"
       [] r.cell_ref = "A1:A2" -> "a1xa2" [] r.cell_ref = "A1:A3" -> "a1xa3"
       [] OTHER -> "a2xa3")

\* int(token.value) of LiteralNode.build
ParseInt(v) == CASE v = "1" -> 1 [] v = "2" -> 2 [] v = "3" -> 3 [] v = "4" -> 4 [] v = "5" -> 5 [] OTHER -> 0

\* Tokenizer(value).items: fresh Token objects.  openpyxl's Token defines no
\* __eq__ and no __hash__, so tokens are compared by object identity: oid.
Tokenize(raw, tid) ==
    [i \in DOMAIN raw |->
        [type |-> raw[i].type, subtype |-> raw[i].subtype, value |-> raw[i].value,
         oid |-> <<tid, i>>]]

\* The token without its identity: what the formula text says.
TokText(t) == Tok(t.type, t.subtype, t.value)

GroupText(g) == [i \in DOMAIN g |-> TokText(g[i])]

(***************************************************************************)
(* CompilerReference (compiler_frame.py)                                   *)
(***************************************************************************)
\* CompilerReference(mode, active_cell, data).  data is the reference
\* (mode range), FunctionCallData(name, args) (mode function) or a tuple of
\* tokens (mode paren, kept as the one group of args).
RangeKey(r) ==
    [mode |-> "range", active_cell |-> r, ref |-> r.cell_ref, name |-> "", args |-> <<>>]

FunctionKey(cell, name, args) ==
    [mode |-> "function", active_cell |-> cell, ref |-> "", name |-> name, args |-> args]

ParenKey(cell, group) ==
    [mode |-> "paren", active_cell |-> cell, ref |-> "", name |-> "", args |-> <<group>>]

\* next_reference() returning None
NoKey == [mode |-> "none", active_cell |-> Ref(""), ref |-> "", name |-> "", args |-> <<>>]

\* CompilerReference.__eq__ (and __hash__): the sheet of the active cell and
\* the data.  Data of different modes are never equal.
KeyEq(k1, k2) ==
    /\ k1.active_cell.sheet = k2.active_cell.sheet
    /\ k1.ref = k2.ref /\ k1.name = k2.name /\ k1.args = k2.args

\* Two keys that denote the same range, the same function name with
\* token-for-token identical argument groups, or the same token group.
SameText(k1, k2) ==
    /\ k1.active_cell.sheet = k2.active_cell.sheet
    /\ k1.mode = k2.mode /\ k1.ref = k2.ref /\ k1.name = k2.name
    /\ Len(k1.args) = Len(k2.args)
    /\ \A i \in DOMAIN k1.args : GroupText(k1.args[i]) = GroupText(k2.args[i])

\* The memo table: a dict, kept as its entries in insertion order.
MemoHas(refs, k) == \E i \in DOMAIN refs : KeyEq(refs[i].key, k)

MemoGet(refs, k) == refs[CHOOSE i \in DOMAIN refs : KeyEq(refs[i].key, k)].node

\* references[k] = node: an equal key keeps its place and gets the new value.
MemoPut(refs, k, n) ==
    IF MemoHas(refs, k)
    THEN [i \in DOMAIN refs |-> IF KeyEq(refs[i].key, k) THEN [refs[i] EXCEPT !.node = n] ELSE refs[i]]
    ELSE Append(refs, [key |-> k, node |-> n])

(***************************************************************************)
(* Nodes (nodes/*.py) and the function registry (excel_functions)          *)
(***************************************************************************)
NoShape == Shape(0, 0)

Rat(n, d) == [num |-> n, den |-> d]

NodeRec(kind, varname, children, value, operator, fn, shape) ==
    [kind |-> kind, varname |-> varname, children |-> children, parents |-> <<>>,
     value |-> value, operator |-> operator, fn |-> fn, shape |-> shape,
     idx |-> <<>>, in_place |-> FALSE]

LiteralNode(varname, value) == NodeRec("Literal", varname, <<>>, value, "", "", SCALAR_SHAPE)

InputNode(varname, shape) == NodeRec("Input", varname, <<>>, Rat(0, 1), "", "", shape)

OutputNode(varname, child) == NodeRec("Output", varname, <<child>>, Rat(0, 1), "", "", NoShape)

BinOpNode(varname, op, l, r) == NodeRec("BinOp", varname, <<l, r>>, Rat(0, 1), op, "", NoShape)

ComparisonNode(varname, op, l, r) ==
    NodeRec("Comparison", varname, <<l, r>>, Rat(0, 1), op, "", NoShape)

FunctionOpNode(varname, fn, children) ==
    NodeRec("FunctionOp", varname, children, Rat(0, 1), "", fn, NoShape)

ExcelArrayNode(varname, shape, children) ==
    NodeRec("ExcelArray", varname, children, Rat(0, 1), "", "", shape)

RandomValueNode(varname, shape) == NodeRec("RandomValue", varname, <<>>, Rat(0, 1), "", "", shape)

RandBetweenNode(varname, low, high, shape) ==
    NodeRec("RandBetween", varname, <<low, high>>, Rat(0, 1), "", "", shape)

FlatArrayNode(varname, children) ==
    NodeRec("FlatArray", varname, children, Rat(0, 1), "", "", NoShape)

\* Node.__init__: the new node is appended to the parents of each child,
\* once per child slot.
AddNode(ns, rec) ==
    LET id == Len(ns) + 1
        cnt(j) == Cardinality({i \in DOMAIN rec.children : rec.children[i] = j})
        upd == [j \in DOMAIN ns |->
                    IF cnt(j) = 0 THEN ns[j]
                    ELSE [ns[j] EXCEPT !.parents = @ \o [k \in 1..cnt(j) |-> id]]]
    IN  Append(upd, rec)

\* BIN_OP_MAP
BinOps == {"^", "*", "/", "+", "-", "&", "=", "<", ">", "<=", ">=", "<>"}

\* A table with '&' next to '+' and '-'.
ConcatWithAdd(op) ==
    CASE op = "^" -> 5
      [] op \in {"*", "/"} -> 4
      [] op \in {"+", "-", "&"} -> 3
      [] OTHER -> 1

Precedence(op) ==
    CASE op = "^" -> 5
      [] op \in {"*", "/"} -> 4
      [] op \in {"+", "-"} -> 3
      [] op = "&" -> 2
      [] OTHER -> 1

IsComparison(op) == op \in {"=", "<", ">", "<=", ">=", "<>"}

AstOperator(op) ==
    CASE op = "^" -> "Pow" [] op = "*" -> "Mult" [] op = "/" -> "Div"
      [] op = "+" -> "Add" [] op = "-" -> "Sub" [] op = "&" -> "Add"
      [] op = "=" -> "Eq" [] op = "<" -> "Lt" [] op = ">" -> "Gt"
      [] op = "<=" -> "LtE" [] op = ">=" -> "GtE" [] OTHER -> "NotEq"

\* The registry entries the modelled formulas use: SUM and CHOOSE are
\* AggregatingFunction (shape=SCALAR_SHAPE), INTERNAL_CONCAT a ScalarFunction.
RegistryNames == {"SUM", "CHOOSE"}

aggregation_idx(fn) == IF fn = "CHOOSE" THEN 1 ELSE 0

\* The outcome of reading a node's shape: a shape or the exception raised.
ShapeOk(s) == [ok |-> TRUE, shape |-> s, exc |-> ""]

ShapeExc(e) == [ok |-> FALSE, shape |-> NoShape, exc |-> e]

OfMerge(m) == IF m.ok THEN ShapeOk(m.shape) ELSE ShapeExc("UnsupportedBroadcastException")

RECURSIVE NodeShape(_, _)
RECURSIVE SumSizes(_, _, _)

\* FlatArrayNode.shape: Shape(sum of the children's sizes, 1)
SumSizes(ns, children, acc) ==
    IF children = <<>> THEN ShapeOk(Shape(acc, 1))
    ELSE LET c == NodeShape(ns, Head(children))
         IN  IF ~c.ok THEN c ELSE SumSizes(ns, Tail(children), acc + size(c.shape))

\* Function.compute_shape: children[0].shape is read first; a fixed shape
\* then replaces it.  ScalarFunction with iteration_idx 0 returns it.
compute_shape(ns, nd) ==
    IF nd.children = <<>> THEN ShapeExc("IndexError")
    ELSE LET first == NodeShape(ns, nd.children[1])
         IN  IF ~first.ok THEN first
             ELSE IF nd.fn \in RegistryNames THEN ShapeOk(SCALAR_SHAPE)
             ELSE first

\* The shape property of each node class.
NodeShape(ns, n) ==
    LET nd == ns[n]
    IN  CASE nd.kind \in {"Literal", "Input", "ExcelArray", "RandomValue", "RandBetween"} ->
                ShapeOk(nd.shape)
          [] nd.kind \in {"BinOp", "Comparison"} ->
                LET l == NodeShape(ns, nd.children[1])
                IN  IF ~l.ok THEN l
                    ELSE LET r == NodeShape(ns, nd.children[2])
                         IN  IF ~r.ok THEN r ELSE OfMerge(Merge(l.shape, r.shape))
          [] nd.kind = "FunctionOp" -> compute_shape(ns, nd)
          [] nd.kind = "FlatArray" -> SumSizes(ns, nd.children, 0)
          [] nd.kind \in {"Index", "BufferIndex"} ->
                ShapeOk(Shape(nd.idx[1][2] - nd.idx[1][1], nd.idx[2][2] - nd.idx[2][1]))
          [] nd.kind = "Buffer" -> ShapeOk(nd.shape)
          [] nd.kind = "BufferAssignment" -> ShapeExc("NotImplementedError")
          [] nd.kind = "Conditional" -> ShapeOk(SCALAR_SHAPE)
          [] OTHER -> NodeShape(ns, nd.children[1])

(***************************************************************************)
(* Frames (compiler_frame.py, shunting_yards.py)                           *)
(*                                                                         *)
(* The operators below work on a machine record M:                         *)
(*   stack  - the frame stack; the parent of a function or nested frame is *)
(*            the frame that requested it, which is the frame below it     *)
(*   nodes  - the nodes created so far                                     *)
(*   tokgen - the number of Tokenizer runs so far                          *)
(*   err    - the exception raised, "" if none                             *)
(***************************************************************************)
Machine(stk, ns, tg, e) == [stack |-> stk, nodes |-> ns, tokgen |-> tg, err |-> e]

Fail(M, e) == [M EXCEPT !.err = e]

\* CompilerFrame.__init__ and the fields its subclasses add.
Frame(cls, ref) ==
    [cls |-> cls, ref |-> ref, idx |-> 0,
     tokens |-> <<>>, operator_stack |-> <<>>, output_stack |-> <<>>,
     next_prefix |-> "", next_reference |-> NoKey,
     args |-> <<>>, child_tokens |-> <<>>, cells |-> <<>>]

IsTokenFrame(f) == f.cls \in {"Cell", "Nested"}

NodeElem(n) == [isNode |-> TRUE, node |-> n, op |-> ""]

OpElem(op) == [isNode |-> FALSE, node |-> 0, op |-> op]

Reverse(s) == [i \in DOMAIN s |-> s[Len(s) + 1 - i]]

\* CompilerFrame.next_idx: a frame whose key is a range counts itself; any
\* other frame asks its parent.
RECURSIVE next_idx(_, _)
next_idx(stk, i) ==
    IF stk[i].ref.mode = "range"
    THEN [stack |-> [stk EXCEPT ![i].idx = @ + 1],
          name |-> encode_name(stk[i].ref.active_cell) \o "_" \o ToString(stk[i].idx + 1)]
    ELSE next_idx(stk, i - 1)

\* wrap_node_with_multiplier: the literal is built first, then the BinOpNode
\* that takes the name of the node it wraps.  The new node is the last one.
wrap_node_with_multiplier(ns, n, multiplier, postfix) ==
    LET ns1 == AddNode(ns, LiteralNode(ns[n].varname \o postfix, multiplier))
    IN  AddNode(ns1, BinOpNode(ns[n].varname, "Mult", n, Len(ns1)))

\* ShuntingYardsOperator.push_output
push_output(M, i, n) ==
    LET f == M.stack[i]
    IN  IF f.next_prefix # ""
        THEN IF f.next_prefix # "-" THEN Fail(M, "AssertionError")
             ELSE LET ns2 == wrap_node_with_multiplier(M.nodes, n, Rat(-1, 1), "_neg")
                  IN  [M EXCEPT !.nodes = ns2,
                                !.stack[i].output_stack = Append(@, NodeElem(Len(ns2))),
                                !.stack[i].next_prefix = ""]
        ELSE [M EXCEPT !.stack[i].output_stack = Append(@, NodeElem(n))]

\* The while loop of push_operator: operators of the same or a higher
\* precedence move to the output.
RECURSIVE PopOperators(_, _, _)
PopOperators(ops, out, prec) ==
    IF ops # <<>> /\ Precedence(ops[Len(ops)]) >= prec
    THEN PopOperators(SubSeq(ops, 1, Len(ops) - 1), Append(out, OpElem(ops[Len(ops)])), prec)
    ELSE [operator_stack |-> ops, output_stack |-> out]

\* ShuntingYardsOperator.push_operator
push_operator(M, i, op) ==
    IF op \notin BinOps THEN Fail(M, "KeyError")
    ELSE LET f == M.stack[i]
             r == PopOperators(f.operator_stack, f.output_stack, Precedence(op))
         IN  [M EXCEPT !.stack[i].operator_stack = Append(r.operator_stack, op),
                       !.stack[i].output_stack = r.output_stack]

\* ShuntingYardsOperator.apply_prefix
apply_prefix(M, i, op) == [M EXCEPT !.stack[i].next_prefix = op]

\* ShuntingYardsOperator.apply_postfix
apply_postfix(M, i, op) ==
    LET f == M.stack[i]
        out == f.output_stack
    IN  IF out = <<>> \/ op # "%" THEN Fail(M, "AssertionError")
        ELSE IF ~out[Len(out)].isNode THEN Fail(M, "AttributeError")
        ELSE LET ns2 == wrap_node_with_multiplier(M.nodes, out[Len(out)].node, Rat(1, 100), "_pct")
             IN  [M EXCEPT !.nodes = ns2,
                           !.stack[i].output_stack = [out EXCEPT ![Len(out)] = NodeElem(Len(ns2))]]

\* consume_until_matching_paren: the argument groups up to the matching
\* close, and the tokens left after it.
\* Every empty group removed, wherever it stands.
DropEveryEmpty(children) ==
    LET NonEmpty(g) == g # <<>> IN SelectSeq(children, NonEmpty)

\* "if the last child is empty remove it from the results"
DropLastIfEmpty(children) ==
    IF children[Len(children)] = <<>> THEN SubSeq(children, 1, Len(children) - 1) ELSE children

RECURSIVE MatchParen(_, _, _, _)
MatchParen(tokens, stack_count, sub_tokens, children) ==
    IF stack_count = 0
    THEN [exc |-> "", rest |-> tokens, args |-> DropLastIfEmpty(Append(children, sub_tokens))]
    ELSE IF tokens = <<>> THEN [exc |-> "IndexError", rest |-> <<>>, args |-> <<>>]
    ELSE LET t == Head(tokens)
         IN  IF t.type \in {"FUNC", "PAREN"}
             THEN LET sc == IF t.subtype = "OPEN" THEN stack_count + 1 ELSE stack_count - 1
                  IN  MatchParen(Tail(tokens), sc,
                                 IF sc # 0 THEN Append(sub_tokens, t) ELSE sub_tokens, children)
             ELSE IF t.type = "SEP" /\ stack_count = 1
             THEN IF t.subtype # "ARG"
                  THEN [exc |-> "AssertionError", rest |-> <<>>, args |-> <<>>]
                  ELSE MatchParen(Tail(tokens), stack_count, <<>>, Append(children, sub_tokens))
             ELSE MatchParen(Tail(tokens), stack_count, Append(sub_tokens, t), children)

consume_until_matching_paren(tokens) == MatchParen(tokens, 1, <<>>, <<>>)

\* _TokenFrame.consume: tokens are taken until one needs another unit
\* (next_reference is set) or none is left (next_reference is None).
RECURSIVE consume(_, _)
consume(M, i) ==
    IF M.err # "" THEN M
    ELSE IF M.stack[i].tokens = <<>> THEN [M EXCEPT !.stack[i].next_reference = NoKey]
    ELSE
      LET token == Head(M.stack[i].tokens)
          cell == M.stack[i].ref.active_cell
          M1 == [M EXCEPT !.stack[i].tokens = Tail(@)]
      IN  CASE token.type = "OPERAND" ->
                 IF token.subtype = "RANGE"
                 THEN [M1 EXCEPT !.stack[i].next_reference = RangeKey(Ref(token.value))]
                 ELSE IF token.subtype # "NUMBER" THEN Fail(M1, "TypeError")
                 ELSE LET ni == next_idx(M1.stack, i)
                          ns == AddNode(M1.nodes, LiteralNode(ni.name, Rat(ParseInt(token.value), 1)))
                      IN  consume(push_output([M1 EXCEPT !.stack = ni.stack, !.nodes = ns], i, Len(ns)), i)
            [] token.type = "OPERATOR-INFIX" -> consume(push_operator(M1, i, token.value), i)
            [] token.type = "OPERATOR-PREFIX" -> consume(apply_prefix(M1, i, token.value), i)
            [] token.type = "OPERATOR-POSTFIX" -> consume(apply_postfix(M1, i, token.value), i)
            [] token.type = "FUNC" ->
                 IF token.subtype # "OPEN" THEN Fail(M1, "AssertionError")
                 ELSE LET r == consume_until_matching_paren(M1.stack[i].tokens)
                      IN  IF r.exc # "" THEN Fail(M1, r.exc)
                          ELSE [M1 EXCEPT !.stack[i].tokens = r.rest,
                                          !.stack[i].next_reference =
                                              FunctionKey(cell, token.value, r.args)]
            [] token.type = "PAREN" ->
                 IF token.subtype # "OPEN" THEN Fail(M1, "AssertionError")
                 ELSE LET r == consume_until_matching_paren(M1.stack[i].tokens)
                      IN  IF r.exc # "" THEN Fail(M1, r.exc)
                          ELSE IF Len(r.args) # 1 THEN Fail(M1, "AssertionError")
                          ELSE [M1 EXCEPT !.stack[i].tokens = r.rest,
                                          !.stack[i].next_reference = ParenKey(cell, r.args[1])]
            [] token.type = "WHITE-SPACE" -> consume(M1, i)
            [] OTHER -> Fail(M1, "NotImplementedError")

\* ref.data.value of a formula cell as the Tokenizer splits it: cell 0 of a
\* workbook holds the formula arg.
FormulaOf(w, cell) == IF w[cell.cell_ref] = 0 THEN arg ELSE Formulas[w[cell.cell_ref]]

\* CellReferenceCompilerFrame.__init__: a formula cell is tokenized and
\* consumed; any other cell becomes a literal node on the output stack.
CellReferenceCompilerFrame(M, w, key) ==
    LET cell == key.active_cell
    IN  IF RefDataType(cell) = "f"
        THEN LET f == [Frame("Cell", key) EXCEPT
                          !.tokens = Tokenize(FormulaOf(w, cell), M.tokgen + 1)]
                 M1 == [M EXCEPT !.stack = Append(@, f), !.tokgen = @ + 1]
             IN  consume(M1, Len(M1.stack))
        ELSE LET M1 == [M EXCEPT !.stack = Append(@, Frame("Cell", key))]
                 ns == AddNode(M1.nodes, LiteralNode(encode_name(cell), Rat(RefValue(cell), 1)))
             IN  push_output([M1 EXCEPT !.nodes = ns], Len(M1.stack), Len(ns))

\* NestedCompilerFrame.__init__: the tokens of the key itself are consumed.
NestedCompilerFrame(M, key) ==
    LET f == [Frame("Nested", key) EXCEPT !.tokens = key.args[1]]
        M1 == [M EXCEPT !.stack = Append(@, f)]
    IN  consume(M1, Len(M1.stack))

\* FunctionCompilerFrame.__init__
FunctionCompilerFrame(M, key) ==
    [M EXCEPT !.stack = Append(@, [Frame("Function", key) EXCEPT !.child_tokens = key.args])]

\* RangeBuildFrame.__init__
RangeBuildFrame(M, key) ==
    [M EXCEPT !.stack = Append(@, [Frame("Range", key) EXCEPT !.cells = get_cells(key.active_cell)])]

\* create_compiler_frame (no cell of the modelled workbooks is an array formula)
create_compiler_frame(M, w, key) ==
    IF is_range(key.active_cell) THEN RangeBuildFrame(M, key)
    ELSE CellReferenceCompilerFrame(M, w, key)

\* next_reference() of each frame class
next_reference(f) ==
    CASE IsTokenFrame(f) -> f.next_reference
      [] f.cls = "Function" ->
            IF Len(f.child_tokens) = Len(f.args) THEN NoKey
            ELSE ParenKey(f.ref.active_cell, f.child_tokens[Len(f.args) + 1])
      [] OTHER ->
            IF Len(f.cells) = Len(f.args) THEN NoKey
            ELSE RangeKey(f.cells[Len(f.args) + 1])

\* A push_node that drops the node and leaves the frame where it was.
PushNodeKeepsCursor(M, i, n) == M

\* push_node() of each frame class
push_node(M, i, n) ==
    IF IsTokenFrame(M.stack[i]) THEN consume(push_output(M, i, n), i)
    ELSE [M EXCEPT !.stack[i].args = Append(@, n)]

\* The loop of _TokenFrame.finalize: the RPN sequence is evaluated on a stack
\* of nodes, one new node per operator.
RECURSIVE EvalRpn(_, _, _, _)
EvalRpn(M, i, elems, st) ==
    IF M.err # "" \/ elems = <<>> THEN [M |-> M, st |-> st]
    ELSE LET e == Head(elems)
         IN  IF e.isNode THEN EvalRpn(M, i, Tail(elems), Append(st, e.node))
             ELSE IF Len(st) < 2 THEN [M |-> Fail(M, "IndexError"), st |-> st]
             ELSE LET right == st[Len(st)]
                      left == st[Len(st) - 1]
                      ni == next_idx(M.stack, i)
                      rec == IF e.op = "&" THEN FunctionOpNode(ni.name, "INTERNAL_CONCAT", <<left, right>>)
                             ELSE IF IsComparison(e.op)
                                  THEN ComparisonNode(ni.name, AstOperator(e.op), left, right)
                             ELSE BinOpNode(ni.name, AstOperator(e.op), left, right)
                      ns == AddNode(M.nodes, rec)
                  IN  EvalRpn([M EXCEPT !.stack = ni.stack, !.nodes = ns], i, Tail(elems),
                              Append(SubSeq(st, 1, Len(st) - 2), Len(ns)))

\* finalize without its last assertion: whatever node is on top is returned.
FinalizeTakingTop(M, i) ==
    LET f == M.stack[i]
    IN  IF f.next_prefix # "" THEN [M |-> Fail(M, "AssertionError"), node |-> 0]
        ELSE LET r == EvalRpn(M, i, f.output_stack \o
                                    [k \in DOMAIN f.operator_stack |->
                                        OpElem(Reverse(f.operator_stack)[k])], <<>>)
             IN  IF r.M.err # "" THEN [M |-> r.M, node |-> 0]
                 ELSE [M |-> r.M, node |-> IF r.st = <<>> THEN 0 ELSE r.st[Len(r.st)]]

\* _TokenFrame.finalize with ShuntingYardsOperator.finalize
TokenFinalize(M, i) ==
    LET f == M.stack[i]
    IN  IF f.next_prefix # "" THEN [M |-> Fail(M, "AssertionError"), node |-> 0]
        ELSE LET r == EvalRpn(M, i, f.output_stack \o
                                    [k \in DOMAIN f.operator_stack |->
                                        OpElem(Reverse(f.operator_stack)[k])], <<>>)
             IN  IF r.M.err # "" THEN [M |-> r.M, node |-> 0]
                 ELSE IF Len(r.st) # 1 THEN [M |-> Fail(r.M, "AssertionError"), node |-> 0]
                 ELSE [M |-> r.M, node |-> r.st[1]]

\* _aggregate_op: the arguments from aggregation_idx on become one
\* FlatArrayNode, which also creates its default literal.
aggregate_op(ns, fn, args) ==
    LET a == aggregation_idx(fn)
    IN  IF Len(args) > a + 1
        THEN LET ns1 == AddNode(ns, FlatArrayNode(ns[args[a + 1]].varname \o "_agg",
                                                  SubSeq(args, a + 1, Len(args))))
                 flat == Len(ns1)
                 ns2 == AddNode(ns1, LiteralNode(ns1[flat].varname \o "_d", Rat(0, 1)))
             IN  [nodes |-> ns2, args |-> Append(SubSeq(args, 1, a), flat)]
        ELSE [nodes |-> ns, args |-> args]

\* FunctionCompilerFrame.finalize: Function.prepare_function runs the prep
\* steps, then names and builds the FunctionOpNode.
FunctionFinalize(M, i, fn) ==
    LET p == aggregate_op(M.nodes, fn, M.stack[i].args)
        ni == next_idx(M.stack, i)
        ns == AddNode(p.nodes, FunctionOpNode(ni.name, fn, p.args))
    IN  [M |-> [M EXCEPT !.stack = ni.stack, !.nodes = ns], node |-> Len(ns)]

\* RangeBuildFrame.finalize: ExcelArrayNode, which also creates its default literal.
RangeFinalize(M, i) ==
    LET f == M.stack[i]
        ni == next_idx(M.stack, i)
        ns1 == AddNode(M.nodes, ExcelArrayNode(ni.name, RefShape(f.ref.active_cell), f.args))
        arr == Len(ns1)
        ns2 == AddNode(ns1, LiteralNode(ni.name \o "_d", Rat(0, 1)))
    IN  [M |-> [M EXCEPT !.stack = ni.stack, !.nodes = ns2], node |-> arr]

\* fn_name_full[:-1].upper() of _process_next_reference
FnName(full) ==
    CASE full = "SUM(" -> "SUM"
      [] full = "CHOOSE(" -> "CHOOSE"
      [] full = "ROW(" -> "ROW"
      [] OTHER -> "XX"

\* finalize() of each frame class
finalize(M, i) ==
    CASE IsTokenFrame(M.stack[i]) -> TokenFinalize(M, i)
      [] M.stack[i].cls = "Function" -> FunctionFinalize(M, i, FnName(M.stack[i].ref.name))
      [] OTHER -> RangeFinalize(M, i)

\* The entry of SPECIAL_FUNCTION_MAP the modelled formulas use.
SpecialNames == {"ROW"}

\* basic_lookup(row): a literal named by the requesting frame, holding the
\* row of that frame's active cell.
special_row(M, key) ==
    IF Len(key.args) # 0 THEN [M |-> Fail(M, "AssertionError"), node |-> 0]
    ELSE LET top == Len(M.stack)
             ni == next_idx(M.stack, top)
             ns == AddNode(M.nodes, LiteralNode(ni.name, Rat(RefRow(M.stack[top].ref.active_cell), 1)))
         IN  [M |-> [M EXCEPT !.stack = ni.stack, !.nodes = ns], node |-> Len(ns)]

\* _process_next_reference: a node (node # 0) or a new frame on the stack.
process_next_reference(M, w, key) ==
    CASE key.mode = "range" -> [M |-> create_compiler_frame(M, w, key), node |-> 0]
      [] key.mode = "function" ->
            IF FnName(key.name) \in SpecialNames THEN special_row(M, key)
            ELSE IF FnName(key.name) \notin RegistryNames
                 THEN [M |-> Fail(M, "NotImplementedError"), node |-> 0]
            ELSE [M |-> FunctionCompilerFrame(M, key), node |-> 0]
      [] OTHER -> [M |-> NestedCompilerFrame(M, key), node |-> 0]

(***************************************************************************)
(* Compiler (compiler.py) and the generated function body (ast.py)         *)
(***************************************************************************)
\* The most add_output calls and add_input calls of one run.
MaxOutputCalls == 2

MaxInputCalls == 1

\* The number of frames that fit in memory.  The stack of a workbook without
\* a circular reference stays below it; the stack of a workbook with one
\* grows by a frame per iteration until the allocation of the next fails.
MaxStack == 8

OutputNames == {"x", "y"}

OutputRefs == {"B1", "B2"}

InputNames == {"p"}

InputRefs == {"A1", "B1"}

\* A Python dict, kept as its items in insertion order.
DictHas(d, k) == \E i \in DOMAIN d : d[i].k = k

DictGet(d, k) == d[CHOOSE i \in DOMAIN d : d[i].k = k].v

\* d[k] = v: a key already present keeps its place.
DictPut(d, k, v) ==
    IF DictHas(d, k) THEN [i \in DOMAIN d |-> IF d[i].k = k THEN [d[i] EXCEPT !.v = v] ELSE d[i]]
    ELSE Append(d, [k |-> k, v |-> v])

DictKeys(d) == {d[i].k : i \in DOMAIN d}

CompIdle ==
    /\ wb = [c \in FormulaCells |-> 1]
    /\ outCalls = 0 /\ inCalls = 0
    /\ outputs = <<>> /\ output_cells = <<>> /\ inputs = <<>> /\ input_cells = <<>>
    /\ references = <<>> /\ stack = <<>> /\ nodes = <<>> /\ tokgen = 0
    /\ graph = <<>> /\ result_keys = {}
    /\ pc = "idle" /\ err = ""
    /\ frameLog = <<>> /\ finalLog = <<>> /\ pushLog = <<>>

\* Compiler.__init__ on one of the modelled workbooks.
CompInit ==
    /\ wb \in Workbooks
    /\ outCalls = 0 /\ inCalls = 0
    /\ outputs = <<>> /\ output_cells = <<>> /\ inputs = <<>> /\ input_cells = <<>>
    /\ references = <<>> /\ stack = <<>> /\ nodes = <<>> /\ tokgen = 0
    /\ graph = <<>> /\ result_keys = {}
    /\ pc = "setup" /\ err = ""
    /\ frameLog = <<>> /\ finalLog = <<>> /\ pushLog = <<>>

loopVars == <<references, stack, nodes, tokgen, graph, result_keys, frameLog, finalLog, pushLog>>

setupVars == <<wb, outCalls, inCalls, outputs, output_cells, inputs, input_cells>>

\* Compiler.add_output
add_output(name, a) ==
    /\ pc = "setup"
    /\ outCalls < MaxOutputCalls
    /\ outputs' = DictPut(outputs, name, Ref(a))
    /\ output_cells' = DictPut(output_cells, Ref(a), name)
    /\ outCalls' = outCalls + 1
    /\ UNCHANGED <<wb, inCalls, inputs, input_cells, pc, err, loopVars>>

\* Compiler.add_input
add_input(name, a) ==
    /\ pc = "setup"
    /\ inCalls < MaxInputCalls
    /\ inputs' = DictPut(inputs, name, Ref(a))
    /\ input_cells' = DictPut(input_cells, Ref(a), name)
    /\ inCalls' = inCalls + 1
    /\ UNCHANGED <<wb, outCalls, outputs, output_cells, pc, err, loopVars>>

AddOutput == \E name \in OutputNames, a \in OutputRefs : add_output(name, a)

AddInput == \E name \in InputNames, a \in InputRefs : add_input(name, a)

\* An exception leaves _gen_ast: nothing is returned.
Raise(e) ==
    /\ pc' = "failed"
    /\ err' = e
    /\ UNCHANGED <<setupVars, loopVars>>

\* A check that looks at the outputs only.
OutputsOnlyCheck == Len(outputs) = 0

\* _gen_ast, the test of its first statement.
setup_incomplete == Len(outputs) = 0 \/ Len(inputs) = 0

\* _gen_ast without an output or without an input.
GenAstSetupError ==
    /\ pc = "setup"
    /\ setup_incomplete
    /\ Raise("AttributeError")

\* _gen_ast, first loop: every input is a memo entry from the start.
RECURSIVE LoadInputs(_, _, _)
LoadInputs(ins, ns, refs) ==
    IF ins = <<>> THEN [nodes |-> ns, references |-> refs]
    ELSE LET ns1 == AddNode(ns, InputNode(Head(ins).k, RefShape(Head(ins).v)))
         IN  LoadInputs(Tail(ins), ns1, MemoPut(refs, RangeKey(Head(ins).v), Len(ns1)))

\* _gen_ast, second loop: one frame per entry of _outputs, in order.
RECURSIVE SeedFrames(_, _, _)
SeedFrames(M, w, outs) ==
    IF outs = <<>> \/ M.err # "" THEN M
    ELSE SeedFrames(create_compiler_frame(M, w, RangeKey(Head(outs).v)), w, Tail(outs))

\* _gen_ast up to the main loop.
GenAstStart ==
    /\ pc = "setup"
    /\ ~setup_incomplete
    /\ LET li == LoadInputs(inputs, <<>>, <<>>)
           M == SeedFrames(Machine(<<>>, li.nodes, 0, ""), wb, outputs)
       IN  IF M.err # "" THEN Raise(M.err)
           ELSE /\ references' = li.references
                /\ stack' = M.stack
                /\ nodes' = M.nodes
                /\ tokgen' = M.tokgen
                /\ frameLog' = [i \in DOMAIN outputs |-> RangeKey(outputs[i].v)]
                /\ pc' = "loop"
                /\ UNCHANGED <<setupVars, err, graph, result_keys, finalLog, pushLog>>

\* _compiler_loop, first branch: the top frame has nothing left to request.
\* It is finalized, its node is stored under its key and it is popped.
LoopFinalize ==
    /\ pc = "loop" /\ stack # <<>>
    /\ next_reference(stack[Len(stack)]) = NoKey
    /\ LET key == stack[Len(stack)].ref
           r == finalize(Machine(stack, nodes, tokgen, ""), Len(stack))
       IN  IF r.M.err # "" THEN Raise(r.M.err)
           ELSE /\ references' = MemoPut(references, key, r.node)
                /\ stack' = SubSeq(r.M.stack, 1, Len(stack) - 1)
                /\ nodes' = r.M.nodes
                /\ finalLog' = Append(finalLog, <<key, r.node>>)
                /\ UNCHANGED <<setupVars, pc, err, tokgen, graph, result_keys, frameLog, pushLog>>

\* _compiler_loop, second branch: the requested key is in the memo table.
LoopMemoHit ==
    /\ pc = "loop" /\ stack # <<>>
    /\ LET key == next_reference(stack[Len(stack)])
       IN  /\ key # NoKey
           /\ MemoHas(references, key)
           /\ LET n == MemoGet(references, key)
                  M == push_node(Machine(stack, nodes, tokgen, ""), Len(stack), n)
              IN  IF M.err # "" THEN Raise(M.err)
                  ELSE /\ stack' = M.stack
                       /\ nodes' = M.nodes
                       /\ pushLog' = Append(pushLog, <<key, n>>)
                       /\ UNCHANGED <<setupVars, pc, err, references, tokgen, graph,
                                      result_keys, frameLog, finalLog>>

\* _compiler_loop, third branch: a key not seen before.  A special function
\* gives a node, stored at once; anything else gives a new frame.
LoopNew ==
    /\ pc = "loop" /\ stack # <<>>
    /\ LET key == next_reference(stack[Len(stack)])
       IN  /\ key # NoKey
           /\ ~MemoHas(references, key)
           /\ LET r == process_next_reference(Machine(stack, nodes, tokgen, ""), wb, key)
              IN  IF r.M.err # "" THEN Raise(r.M.err)
                  ELSE IF Len(r.M.stack) > MaxStack THEN Raise("MemoryError")
                  ELSE /\ stack' = r.M.stack
                       /\ nodes' = r.M.nodes
                       /\ tokgen' = r.M.tokgen
                       /\ references' = IF r.node # 0 THEN MemoPut(references, key, r.node)
                                        ELSE references
                       /\ frameLog' = IF r.node # 0 THEN frameLog ELSE Append(frameLog, key)
                       /\ UNCHANGED <<setupVars, pc, err, graph, result_keys, finalLog, pushLog>>

\* _gen_ast after the loop: wrap_output for every entry of _outputs.
RECURSIVE WrapOutputs(_, _, _, _)
WrapOutputs(outs, ns, refs, g) ==
    IF outs = <<>> THEN [exc |-> "", nodes |-> ns, graph |-> g]
    ELSE LET name == Head(outs).k
             ref == Head(outs).v
         IN  IF ~MemoHas(refs, RangeKey(ref)) THEN [exc |-> "KeyError", nodes |-> ns, graph |-> g]
             ELSE LET n == MemoGet(refs, RangeKey(ref))
                      sh == NodeShape(ns, n)
                  IN  IF ~sh.ok THEN [exc |-> sh.exc, nodes |-> ns, graph |-> g]
                      ELSE IF size(sh.shape) # size(RefShape(ref))
                           THEN [exc |-> "AssertionError", nodes |-> ns, graph |-> g]
                      ELSE LET ns1 == AddNode(ns, OutputNode(name, n))
                           IN  WrapOutputs(Tail(outs), ns1, refs,
                                           Append(g, [cell |-> ref, node |-> Len(ns1)]))

\* The loop has ended: the graph is built.  optimize_graph is called with
\* disable_optimizations=True, which runs no pass.
BuildGraph ==
    /\ pc = "loop" /\ stack = <<>>
    /\ LET r == WrapOutputs(outputs, nodes, references, <<>>)
       IN  IF r.exc # "" THEN Raise(r.exc)
           ELSE /\ nodes' = r.nodes
                /\ graph' = r.graph
                /\ pc' = "codegen"
                /\ UNCHANGED <<setupVars, err, references, stack, tokgen, result_keys,
                               frameLog, finalLog, pushLog>>

\* Node.generate_ast_tree: the children first, then the node's own ast.
\* Of the modelled classes, OutputNode.ast reads the node's shape and
\* FlatArrayNode.ast reads the shape of every child.
RECURSIVE AstExc(_, _)
RECURSIVE FirstExc(_, _)
FirstExc(ns, children) ==
    IF children = <<>> THEN ""
    ELSE LET e == AstExc(ns, Head(children))
         IN  IF e # "" THEN e ELSE FirstExc(ns, Tail(children))

AstExc(ns, n) ==
    LET below == FirstExc(ns, ns[n].children)
    IN  IF below # "" THEN below
        ELSE IF ns[n].kind = "Output" THEN NodeShape(ns, n).exc
        ELSE IF ns[n].kind = "FlatArray" THEN SumSizes(ns, ns[n].children, 0).exc
        ELSE ""

\* ast_function_body: the statements of every output tree, then the return
\* dict, whose keys are output_cells[cell] for the cells of the graph.
GenBody ==
    /\ pc = "codegen"
    /\ LET e == FirstExc(nodes, [i \in DOMAIN graph |-> graph[i].node])
       IN  IF e # "" THEN Raise(e)
           ELSE /\ result_keys' = {DictGet(output_cells, graph[i].cell) : i \in DOMAIN graph}
                /\ pc' = "compiled"
                /\ UNCHANGED <<setupVars, err, references, stack, nodes, tokgen, graph,
                               frameLog, finalLog, pushLog>>

(***************************************************************************)
(* Graph surgery (nodes/node.py) and the values of the generated code      *)
(***************************************************************************)
PassIdle == passes_run = <<>> /\ statement_list = <<>> /\ arg = <<>> /\ ret = <<>>

\* The value of x handed to F: x is computed once, however often F reads it.
With(x, F(_)) == CHOOSE y \in {F(v) : v \in {x}} : TRUE

RECURSIVE RemoveFirst(_, _)
\* list.remove: the first occurrence goes.
RemoveFirst(s, x) ==
    IF s = <<>> THEN <<>>
    ELSE IF Head(s) = x THEN Tail(s)
    ELSE <<Head(s)>> \o RemoveFirst(Tail(s), x)

\* list.index
IndexOf(s, x) == CHOOSE i \in DOMAIN s : s[i] = x /\ \A j \in 1..(i - 1) : s[j] # x

Contains(s, x) == \E i \in DOMAIN s : s[i] = x

append_parent(ns, c, p) == [ns EXCEPT ![c].parents = Append(@, p)]

remove_parent(ns, c, p) == [ns EXCEPT ![c].parents = RemoveFirst(@, p)]

\* replace_child without old.remove_parent(self).
ReplaceChildKeepingLink(ns, p, old, new) ==
    IF ~Contains(ns[p].children, old) THEN ns
    ELSE [ns EXCEPT ![p].children[IndexOf(ns[p].children, old)] = new,
                    ![new].parents = Append(@, p)]

\* Node.replace_child: the first slot holding old is given to new.  Every
\* caller passes a parent that holds old in a slot.
replace_child(ns, p, old, new) ==
    IF ~Contains(ns[p].children, old) THEN ns
    ELSE [ns EXCEPT ![p].children[IndexOf(ns[p].children, old)] = new,
                    ![new].parents = Append(@, p),
                    ![old].parents = RemoveFirst(@, p)]

RECURSIVE ReplaceInParents(_, _, _, _)
\* for parent in parents_cache: parent.replace_child(self, new_node)
ReplaceInParents(ns, parents_cache, old, new) ==
    IF parents_cache = <<>> THEN ns
    ELSE With(replace_child(ns, Head(parents_cache), old, new),
              LAMBDA ns1 : ReplaceInParents(ns1, Tail(parents_cache), old, new))

replace_in_graph(ns, old, new) == ReplaceInParents(ns, ns[old].parents, old, new)

\* A replacement that reaches the first parent only.
ReplaceInFirstParent(ns, old, new) == replace_child(ns, ns[old].parents[1], old, new)

replace_self(ns, old, new) == ReplaceInParents(ns, ns[old].parents, old, new)

RECURSIVE ChildClosure(_, _)
\* The nodes of S and everything below them.
ChildClosure(ns, S) ==
    With(S \cup UNION {{ns[n].children[i] : i \in DOMAIN ns[n].children} : n \in S}, LAMBDA T :
         IF T = S THEN S ELSE ChildClosure(ns, T))

\* The nodes a node's value is computed from, itself included.
Descendants(ns, n) == ChildClosure(ns, {n})

\* Node.parents_set
parents_set(ns, n) == {ns[n].parents[i] : i \in DOMAIN ns[n].parents}

\* The nodes of a graph's Output entries.
Roots(g) == {g[i].node : i \in DOMAIN g}

\* Every node some output is computed from.
Reachable(ns, g) == ChildClosure(ns, Roots(g))

(***************************************************************************)
(* What the generated statements compute.  A value is the sequence of its  *)
(* elements: one element for a scalar, the rows of a column vector.        *)
(***************************************************************************)
Abs(x) == IF x < 0 THEN 0 - x ELSE x

RECURSIVE SumSeq(_)
SumSeq(s) == IF s = <<>> THEN 0 ELSE Head(s) + SumSeq(Tail(s))

\* ast.BinOp over numpy operands: elementwise, a scalar is broadcast.
BinOpValue(op, l, r) ==
    LET at(v, i) == IF Len(v) = 1 THEN v[1] ELSE v[i]
    IN  [i \in 1..Max(Len(l), Len(r)) |->
            IF op = "Add" THEN at(l, i) + at(r, i) ELSE at(l, i) * at(r, i)]

\* numpy.sum, numpy.abs and numpy.where, the functions of the modelled graphs.
FunctionValue(fn, args) ==
    CASE fn = "SUM" -> <<SumSeq(args[1])>>
      [] fn = "ABS" -> [i \in DOMAIN args[1] |-> Abs(args[1][i])]
      [] fn = "IF" -> IF args[1][1] # 0 THEN args[2] ELSE args[3]
      [] OTHER -> <<>>

\* numpy.random.randint(low, high): a number of low..high-1.
randint(low, high, draw) == low + (draw % (high - low))

RECURSIVE Eval(_, _, _)
\* The value the statement of node n leaves in its variable, given the
\* arguments env of the compiled function.
Eval(ns, n, env) ==
    With([i \in DOMAIN ns[n].children |-> Eval(ns, ns[n].children[i], env)],
         LAMBDA ch :
            CASE ns[n].kind = "Literal" ->
                    IF ns[n].shape = SCALAR_SHAPE THEN <<ns[n].value.num>>
                    ELSE [i \in DOMAIN ns[n].value |-> ns[n].value[i].num]
              [] ns[n].kind = "Input" -> <<env[ns[n].varname]>>
              [] ns[n].kind = "BinOp" -> BinOpValue(ns[n].operator, ch[1], ch[2])
              [] ns[n].kind = "ExcelArray" -> [i \in DOMAIN ch |-> ch[i][1]]
              [] ns[n].kind \in {"FunctionOp", "Conditional"} -> FunctionValue(ns[n].fn, ch)
              [] ns[n].kind = "Index" -> SubSeq(ch[1], ns[n].idx[1][1] + 1, ns[n].idx[1][2])
              [] ns[n].kind = "Output" -> ch[1]
              [] ns[n].kind = "RandomValue" -> <<env["numpy.random"]>>
              [] ns[n].kind = "RandBetween" -> <<randint(ch[1][1], ch[2][1], env["numpy.random"])>>
              [] OTHER -> <<>>)

\* The values the argument of the compiled function is drawn from.
ArgumentValues == {0, 0 - 3, 5}

\* The values of the outputs of a graph, in graph order.
GraphValues(ns, g, env) == [i \in DOMAIN g |-> Eval(ns, g[i].node, env)]
(***************************************************************************)
(* The graphs the passes are applied to.  A graph is built the way the     *)
(* compiler and the tests of the passes build one: a column of cells, one  *)
(* node per cell and one ExcelArrayNode per range, each created when it is *)
(* first needed, and Output nodes wrapped around the output expressions.   *)
(***************************************************************************)
\* The number of cells in the column.
PassCells == 4

\* The largest number of outputs of a graph.
MaxPassOutputs == 2

Digit(k) == <<"1", "2", "3", "4", "5", "6", "7", "8", "9">>[k]

CellName(k) == "b" \o Digit(k)

RangeName(lo, hi) == CellName(lo) \o "_" \o CellName(hi)

\* The number a literal cell holds.
CellValue(k) == IF k = 2 THEN 0 - 2 ELSE k

\* What a cell holds: a number, the input p, =SUM of the cells above it,
\* or the sum of the two cells above it.
CellKinds(k) ==
    IF k = 1 THEN {"lit", "in"}
    ELSE IF k = 2 THEN {"lit"}
    ELSE {"lit", "sum", "add"}

Sheets == {s \in [1..PassCells -> {"lit", "in", "sum", "add"}] : \A k \in 1..PassCells : s[k] \in CellKinds(k)}

NoGraph == [ns |-> <<>>, cells |-> [k \in 1..PassCells |-> 0],
            ranges |-> [r \in (1..PassCells) \X (1..PassCells) |-> 0], graph |-> <<>>]

PutNode(b, rec) == [b EXCEPT !.ns = AddNode(@, rec)]

RECURSIVE CellNode(_, _, _)
RECURSIVE RangeNode(_, _, _, _)
RECURSIVE CellsOf(_, _, _, _)

\* The nodes of the cells lo..hi, built in order.
CellsOf(sheet, b, lo, hi) ==
    IF lo > hi THEN b
    ELSE With(CellNode(sheet, b, lo), LAMBDA b1 : CellsOf(sheet, b1, lo + 1, hi))

\* ExcelArrayNode(name, Shape(n, 1), [cell nodes]), one per range.
RangeNode(sheet, b, lo, hi) ==
    IF b.ranges[<<lo, hi>>] # 0 THEN b
    ELSE With(CellsOf(sheet, b, lo, hi), LAMBDA b1 :
         With(PutNode(b1, ExcelArrayNode(RangeName(lo, hi), Shape(hi - lo + 1, 1),
                                         [i \in 1..(hi - lo + 1) |-> b1.cells[lo + i - 1]])),
              LAMBDA b2 : [b2 EXCEPT !.ranges[<<lo, hi>>] = Len(b2.ns)]))

\* The node of the content of cell k.
ContentNode(sheet, b, k) ==
    CASE sheet[k] = "lit" -> PutNode(b, LiteralNode(CellName(k), Rat(CellValue(k), 1)))
      [] sheet[k] = "in" -> PutNode(b, InputNode("p", SCALAR_SHAPE))
      [] sheet[k] = "sum" ->
            With(RangeNode(sheet, b, 1, k - 1), LAMBDA r :
                 PutNode(r, FunctionOpNode(CellName(k), "SUM", <<r.ranges[<<1, k - 1>>]>>)))
      [] OTHER ->
            With(CellsOf(sheet, b, k - 2, k - 1), LAMBDA c :
                 PutNode(c, BinOpNode(CellName(k), "Add", c.cells[k - 2], c.cells[k - 1])))

\* The node of cell k, one per cell.
CellNode(sheet, b, k) ==
    IF b.cells[k] # 0 THEN b
    ELSE With(ContentNode(sheet, b, k), LAMBDA b1 : [b1 EXCEPT !.cells[k] = Len(b1.ns)])

Ranges == {r \in (1..PassCells) \X (1..PassCells) : r[1] < r[2]}

\* The output expressions: SUM(range), SUM(ABS(range)), a cell,
\* IF(first cell, cell, cell), and SUM over a second array object holding
\* the cells of a range.
OutExprs ==
    {[op |-> "SUM", a |-> r[1], b |-> r[2]] : r \in Ranges}
    \cup {[op |-> "ABS", a |-> r[1], b |-> r[2]] : r \in {q \in Ranges : q[1] = 1 /\ q[2] < PassCells}}
    \cup {[op |-> "CELL", a |-> k, b |-> k] : k \in 3..PassCells}
    \cup {[op |-> "IF", a |-> r[1], b |-> r[2]] : r \in (3..PassCells) \X (3..PassCells)}
    \cup {[op |-> "TWIN", a |-> 1, b |-> 2]}

FunctionName(i, j) == "x" \o Digit(i) \o "_" \o Digit(j)

\* The node of output expression e of output i.
ExprNode(sheet, b, e, i) ==
    CASE e.op = "CELL" -> CellNode(sheet, b, e.a)
      [] e.op = "SUM" ->
            With(RangeNode(sheet, b, e.a, e.b), LAMBDA r :
                 PutNode(r, FunctionOpNode(FunctionName(i, 1), "SUM", <<r.ranges[<<e.a, e.b>>]>>)))
      [] e.op = "ABS" ->
            With(RangeNode(sheet, b, e.a, e.b), LAMBDA r :
            With(PutNode(r, FunctionOpNode(FunctionName(i, 1), "ABS", <<r.ranges[<<e.a, e.b>>]>>)), LAMBDA f :
                 PutNode(f, FunctionOpNode(FunctionName(i, 2), "SUM", <<Len(f.ns)>>))))
      [] e.op = "IF" ->
            With(CellNode(sheet, b, 1), LAMBDA c1 :
            With(CellNode(sheet, c1, e.a), LAMBDA c2 :
            With(CellNode(sheet, c2, e.b), LAMBDA c :
                 PutNode(c, FunctionOpNode(FunctionName(i, 1), "IF",
                                           <<c.cells[1], c.cells[e.a], c.cells[e.b]>>)))))
      [] e.op = "RAND" -> PutNode(b, RandomValueNode(FunctionName(i, 1), SCALAR_SHAPE))
      [] e.op = "RANDADD" ->
            With(PutNode(b, RandomValueNode(FunctionName(i, 1), SCALAR_SHAPE)), LAMBDA r :
            With(PutNode(r, LiteralNode(FunctionName(i, 2), Rat(e.a, 1))), LAMBDA l :
                 PutNode(l, BinOpNode(FunctionName(i, 3), "Add", Len(r.ns), Len(l.ns)))))
      [] e.op = "RANDBETWEEN" ->
            With(CellNode(sheet, b, e.a), LAMBDA c1 :
            With(CellNode(sheet, c1, e.b), LAMBDA c :
                 PutNode(c, RandBetweenNode(FunctionName(i, 1), c.cells[e.a], c.cells[e.b], SCALAR_SHAPE))))
      [] e.op = "IFTWICE" ->
            With(CellNode(sheet, b, 1), LAMBDA c1 :
            With(CellNode(sheet, c1, e.a), LAMBDA c2 :
            With(CellNode(sheet, c2, e.b), LAMBDA c :
            With(PutNode(c, FunctionOpNode(FunctionName(i, 1), "IF",
                                           <<c.cells[1], c.cells[e.a], c.cells[e.b]>>)), LAMBDA f :
                 PutNode(f, BinOpNode(FunctionName(i, 2), "Add", Len(f.ns), Len(f.ns)))))))
      [] OTHER ->
            With(CellsOf(sheet, b, e.a, e.b), LAMBDA c :
            With(PutNode(c, ExcelArrayNode(RangeName(e.a, e.b) \o "_t", Shape(e.b - e.a + 1, 1),
                                           [j \in 1..(e.b - e.a + 1) |-> c.cells[e.a + j - 1]])), LAMBDA t :
                 PutNode(t, FunctionOpNode(FunctionName(i, 1), "SUM", <<Len(t.ns)>>))))

RECURSIVE BuildOutputs(_, _, _, _)
\* wrap_output around the node of each output expression, in order.
BuildOutputs(sheet, b, exprs, i) ==
    IF i > Len(exprs) THEN b
    ELSE With(ExprNode(sheet, b, exprs[i], i), LAMBDA e :
         With(PutNode(e, OutputNode("out" \o Digit(i),
                                    IF exprs[i].op = "CELL" THEN e.cells[exprs[i].a] ELSE Len(e.ns))),
              LAMBDA o :
         With([o EXCEPT !.graph = Append(@, [cell |-> "out" \o Digit(i), node |-> Len(o.ns)])],
              LAMBDA b1 : BuildOutputs(sheet, b1, exprs, i + 1))))

OutputLists == UNION {[1..n -> OutExprs] : n \in 1..MaxPassOutputs}

PassGraphs == {BuildOutputs(s, NoGraph, outs, 1) : s \in Sheets, outs \in OutputLists}

\* Output expressions with stochastic nodes and with a node used twice:
\* RAND(), RAND()+2, RANDBETWEEN(B1, B4), the IF of two cells added to
\* itself, next to SUM(B1:B3) and IF(B1, B3, B4).
SharedExprs ==
    {[op |-> "RAND", a |-> 1, b |-> 1], [op |-> "RANDADD", a |-> 2, b |-> 2],
     [op |-> "RANDBETWEEN", a |-> 1, b |-> 4], [op |-> "IFTWICE", a |-> 3, b |-> 4],
     [op |-> "SUM", a |-> 1, b |-> 3], [op |-> "IF", a |-> 3, b |-> 4]}

SharedOutputLists == UNION {[1..n -> SharedExprs] : n \in 1..MaxPassOutputs}

SharedGraphs == {BuildOutputs(s, NoGraph, outs, 1) : s \in {t \in Sheets : t[PassCells] = "lit"},
                                                     outs \in SharedOutputLists}
(***************************************************************************)
(* collapse_literals (optimizations/collapse_literals.py)                  *)
(***************************************************************************)
\* LiteralNode(node.varname, value) for the value the executed statements
\* left in the node's variable: an ndarray keeps its shape.
FoldedLiteral(varname, v, shape) ==
    IF shape = SCALAR_SHAPE THEN LiteralNode(varname, Rat(v[1], 1))
    ELSE [LiteralNode(varname, [i \in DOMAIN v |-> Rat(v[i], 1)]) EXCEPT !.shape = shape]

\* No argument of the compiled function is read when every leaf is a literal.
NoArguments == [n \in InputNames |-> 0]

\* The arguments together with the next draw of numpy.random.
Seeded(env, draw) == [n \in DOMAIN env \cup {"numpy.random"} |-> IF n \in DOMAIN env THEN env[n] ELSE draw]

RECURSIVE collapse_exec_recursive(_, _)
RECURSIVE CollapseChildren(_, _, _, _)

\* Step 1 of _exec_recursive: the loop over node.children, which reads each
\* slot when it reaches it.
CollapseChildren(h, n, i, all_literal_children) ==
    IF i > Len(h.ns[n].children) THEN [ns |-> h.ns, visited |-> h.visited, all |-> all_literal_children]
    ELSE With(collapse_exec_recursive(h, h.ns[n].children[i]), LAMBDA r :
              CollapseChildren([h EXCEPT !.ns = r.ns, !.visited = r.visited], n, i + 1,
                               all_literal_children /\ r.ns[r.node].kind = "Literal"))

\* Step 2 of _exec_recursive: the node is evaluated and replaced by a
\* LiteralNode holding the value.
FoldNode(ns, n, draw) ==
    With(Eval(ns, n, Seeded(NoArguments, draw)), LAMBDA value :
    With(FoldedLiteral(ns[n].varname, value, NodeShape(ns, n).shape), LAMBDA new_node :
    With(AddNode(ns, new_node), LAMBDA ns1 : replace_self(ns1, n, Len(ns1)))))

\* _exec_recursive of collapse_literals; node is the node it returns.
collapse_exec_recursive(h, n) ==
    IF n \in h.visited \/ h.ns[n].kind = "Literal" \/ h.ns[n].children = <<>>
    THEN [ns |-> h.ns, visited |-> h.visited, node |-> n]
    ELSE With(CollapseChildren([h EXCEPT !.visited = @ \cup {n}], n, 1, TRUE), LAMBDA r :
              IF r.all
              THEN With(FoldNode(r.ns, n, h.draw), LAMBDA ns1 :
                        [ns |-> ns1, visited |-> r.visited, node |-> Len(ns1)])
              ELSE [ns |-> r.ns, visited |-> r.visited, node |-> n])

RECURSIVE CollapseEach(_, _, _)
\* for child in children: _exec_recursive(child, visited)
CollapseEach(h, children, i) ==
    IF i > Len(children) THEN h
    ELSE With(collapse_exec_recursive(h, children[i]), LAMBDA r :
              CollapseEach([h EXCEPT !.ns = r.ns, !.visited = r.visited], children, i + 1))

RECURSIVE CollapseRoots(_, _, _)
\* for name, root in graph: children = list(root.children); ...
CollapseRoots(h, g, i) ==
    IF i > Len(g) THEN h
    ELSE With(h.ns[g[i].node].children, LAMBDA children :
         With(CollapseEach(h, children, 1), LAMBDA h1 : CollapseRoots(h1, g, i + 1)))

\* draw is what numpy.random gives the statements executed by the pass.
collapse_literals(ns, g, draw) == CollapseRoots([ns |-> ns, visited |-> {}, draw |-> draw], g, 1).ns
(***************************************************************************)
(* merge_array (optimizations/merge_array.py)                              *)
(***************************************************************************)
\* str(k) of a small number.
Str(k) == IF k = 0 THEN "0" ELSE Digit(k)

IndexNode(varname, array_node, idx) ==
    [NodeRec("Index", varname, <<array_node>>, Rat(0, 1), "", "", NoShape) EXCEPT !.idx = idx]

BufferNode(varname, length) == NodeRec("Buffer", varname, <<>>, Rat(0, 1), "", "", Shape(length, 1))

BufferAssignmentNode(buffer_name, idx, child, last_idx_node) ==
    [NodeRec("BufferAssignment", buffer_name, <<child, last_idx_node>>, Rat(0, 1), "", "", NoShape)
        EXCEPT !.idx = idx]

\* BufferIndexNode: an IndexNode on the buffer with the last assignment as a
\* second child.  Its name ends with str(index_slice[0]).
BufferIndexNode(buffer_name, bf, index_slice, last_idx_node) ==
    [NodeRec("BufferIndex", buffer_name \o "_bf_(" \o Str(index_slice[1][1]) \o ", " \o
                            Str(index_slice[1][2]) \o ")",
             <<bf, last_idx_node>>, Rat(0, 1), "", "", NoShape) EXCEPT !.idx = index_slice]

RECURSIVE find_array_nodes(_, _, _)
RECURSIVE FindInChildren(_, _, _, _)
FindInChildren(ns, children, i, f) ==
    IF i > Len(children) THEN f
    ELSE With(find_array_nodes(ns, children[i], f), LAMBDA f1 : FindInChildren(ns, children, i + 1, f1))

find_array_nodes(ns, n, f) ==
    IF n \in f.visited THEN f
    ELSE FindInChildren(ns, ns[n].children, 1,
            [visited |-> f.visited \cup {n},
             array_nodes |-> IF ns[n].kind = "ExcelArray" THEN Append(f.array_nodes, n)
                             ELSE f.array_nodes])

RECURSIVE FindFromRoots(_, _, _, _)
FindFromRoots(ns, g, i, f) ==
    IF i > Len(g) THEN f.array_nodes
    ELSE With(find_array_nodes(ns, g[i].node, f), LAMBDA f1 : FindFromRoots(ns, g, i + 1, f1))

RECURSIVE InsertBySize(_, _, _)
\* x goes behind every array that is not smaller: the sort is stable.
InsertBySize(ns, sorted, x) ==
    IF sorted = <<>> THEN <<x>>
    ELSE IF size(ns[Head(sorted)].shape) >= size(ns[x].shape)
         THEN <<Head(sorted)>> \o InsertBySize(ns, Tail(sorted), x)
         ELSE <<x>> \o sorted

RECURSIVE SortBySize(_, _, _)
\* sorted(array_nodes, key=size, reverse=True)
SortBySize(ns, array_nodes, sorted) ==
    IF array_nodes = <<>> THEN sorted
    ELSE With(InsertBySize(ns, sorted, Head(array_nodes)),
              LAMBDA s : SortBySize(ns, Tail(array_nodes), s))

\* {child.varname for child in node.children}
ChildNames(ns, n) == {ns[ns[n].children[i]].varname : i \in DOMAIN ns[n].children}

\* The last of the earlier arrays that cover the array.
LastSuperset(supers) == CHOOSE o \in supers : \A q \in supers : o >= q

\* for other_idx in range(0, idx): ... break: the first that covers it.
FirstSuperset(supers) == CHOOSE o \in supers : \A q \in supers : o <= q

RECURSIVE ClusterLoop(_, _, _, _)
\* cluster_ranges: c.map[idx] is cluster_map[idx], 0 where it has no entry.
ClusterLoop(ns, arrs, idx, c) ==
    IF idx > Len(arrs) THEN c
    ELSE With({o \in 1..(idx - 1) : ChildNames(ns, arrs[idx]) \subseteq ChildNames(ns, arrs[o])},
              LAMBDA supers :
                 IF supers = {}
                 THEN With([c EXCEPT !.clusters = Append(@, <<arrs[idx]>>),
                                     !.map = Append(@, Len(c.clusters) + 1)],
                           LAMBDA c1 : ClusterLoop(ns, arrs, idx + 1, c1))
                 ELSE With(FirstSuperset(supers), LAMBDA cluster_idx :
                           IF c.map[cluster_idx] = 0 THEN [c EXCEPT !.exc = "KeyError"]
                           ELSE With([c EXCEPT !.clusters[c.map[cluster_idx]] = Append(@, arrs[idx]),
                                               !.map = Append(@, 0)],
                                     LAMBDA c1 : ClusterLoop(ns, arrs, idx + 1, c1))))

cluster_ranges(ns, arrs) == ClusterLoop(ns, arrs, 1, [clusters |-> <<>>, map |-> <<>>, exc |-> ""])

RECURSIVE depends_on(_, _, _, _)
\* Node.depends_on: a target among the parents, or above a parent.  The
\* recursion has no visited set; depth counts the frames still available.
depends_on(ns, n, targets, depth) ==
    IF depth = 0 THEN "RecursionError"
    ELSE IF parents_set(ns, n) \cap targets # {} THEN "yes"
    ELSE With({depends_on(ns, p, targets, depth - 1) : p \in parents_set(ns, n)}, LAMBDA above :
              IF "yes" \in above THEN "yes"
              ELSE IF "RecursionError" \in above THEN "RecursionError"
              ELSE "no")

has_dependencies(ns, cluster) ==
    With({depends_on(ns, cluster[i], {cluster[j] : j \in 1..(i - 1)}, Len(ns) + 1) : i \in 2..Len(cluster)},
         LAMBDA r : IF "yes" \in r THEN "yes" ELSE IF "RecursionError" \in r THEN "RecursionError" ELSE "no")

\* A slice that ends one row early.
ShortSlice(ns, child, covering_node) ==
    With([i \in DOMAIN ns[child].children |->
             IndexOf(ns[covering_node].children, ns[child].children[i]) - 1], LAMBDA indexes :
         [exc |-> "", slice |-> <<<<indexes[1], indexes[Len(indexes)]>>, <<0, 1>>>>])

\* get_slice: the rows of the covering node that hold the children of child.
get_slice(ns, child, covering_node) ==
    IF \E i \in DOMAIN ns[child].children : ~Contains(ns[covering_node].children, ns[child].children[i])
    THEN [exc |-> "ValueError", slice |-> <<>>]
    ELSE With([i \in DOMAIN ns[child].children |->
                    IndexOf(ns[covering_node].children, ns[child].children[i]) - 1], LAMBDA indexes :
         With(CHOOSE x \in {indexes[i] : i \in DOMAIN indexes} : \A i \in DOMAIN indexes : x <= indexes[i],
              LAMBDA lo :
         With(CHOOSE x \in {indexes[i] : i \in DOMAIN indexes} : \A i \in DOMAIN indexes : x >= indexes[i],
              LAMBDA hi :
                 IF indexes # [i \in 1..(hi - lo + 1) |-> lo + i - 1]
                 THEN [exc |-> "AssertionError", slice |-> <<>>]
                 ELSE IF vertical(ns[covering_node].shape)
                 THEN [exc |-> "", slice |-> <<<<lo, hi + 1>>, <<0, 1>>>>]
                 ELSE IF horizontal(ns[covering_node].shape)
                 THEN [exc |-> "", slice |-> <<<<0, 1>>, <<lo, hi + 1>>>>]
                 ELSE [exc |-> "AssertionError", slice |-> <<>>])))

RECURSIVE RemoveParentOfEach(_, _, _, _)
\* for child in node.children: child.remove_parent(node)
RemoveParentOfEach(ns, children, i, node) ==
    IF i > Len(children) THEN ns
    ELSE With(remove_parent(ns, children[i], node), LAMBDA ns1 : RemoveParentOfEach(ns1, children, i + 1, node))

\* node.replace_in_graph(new_node) for the new node rec, and the loop that
\* takes node out of the parents of its children.
ReplaceByNew(ns, node, rec) ==
    With(AddNode(ns, rec), LAMBDA ns1 :
    With(replace_in_graph(ns1, node, Len(ns1)), LAMBDA ns2 :
         RemoveParentOfEach(ns2, ns2[node].children, 1, node)))

RECURSIVE ReplaceMembers(_, _, _)
\* The loop of replace_array_node_with_index_node over cluster[1:].
ReplaceMembers(h, cluster, i) ==
    IF i > Len(cluster) \/ h.exc # "" THEN h
    ELSE IF h.ns[cluster[i]].children = h.ns[cluster[1]].children
    THEN With([h EXCEPT !.ns = replace_in_graph(@, cluster[i], cluster[1])],
              LAMBDA h1 : ReplaceMembers(h1, cluster, i + 1))
    ELSE With(get_slice(h.ns, cluster[i], cluster[1]), LAMBDA s :
              IF s.exc # "" THEN [h EXCEPT !.exc = s.exc]
              ELSE With([h EXCEPT !.ns = ReplaceByNew(h.ns, cluster[i],
                                                      IndexNode(h.ns[cluster[i]].varname, cluster[1], s.slice))],
                        LAMBDA h1 : ReplaceMembers(h1, cluster, i + 1)))

replace_array_node_with_index_node(h, cluster) == ReplaceMembers(h, cluster, 2)

RECURSIVE ChainAssignments(_, _, _, _, _)
\* for child in new_children: one BufferAssignmentNode per child, each
\* chained to the one before it.  order lists the rows in iteration order.
ChainAssignments(ns, buffer_name, covering_children, order, last_idx_node) ==
    IF order = <<>> THEN [ns |-> ns, last |-> last_idx_node]
    ELSE With(AddNode(ns, BufferAssignmentNode(buffer_name, Head(order) - 1, covering_children[Head(order)],
                                               last_idx_node)),
              LAMBDA ns1 : ChainAssignments(ns1, buffer_name, covering_children, Tail(order), Len(ns1)))

\* The new children of a member become assignments, and the member becomes
\* a BufferIndexNode behind the last assignment.
BuildMember(h, node, covering_node, bf, new_children, set_order) ==
    With(h.ns[covering_node].children, LAMBDA covering_children :
    With(SelectSeq(set_order, LAMBDA r : r \in {IndexOf(covering_children, c) : c \in new_children}),
         LAMBDA order :
    With(ChainAssignments(h.ns, h.ns[bf].varname, covering_children, order, h.last), LAMBDA a :
    With(get_slice(a.ns, node, covering_node), LAMBDA s :
         IF s.exc # "" THEN [h EXCEPT !.exc = s.exc]
         ELSE [ns |-> ReplaceByNew(a.ns, node, BufferIndexNode(a.ns[bf].varname, bf, s.slice, a.last)),
               exc |-> "", last |-> a.last, current_set |-> h.current_set \cup new_children]))))

RECURSIVE BuildMembers(_, _, _, _, _)
\* The loop of build_array_from_cluster over reversed(cluster).  A set of
\* nodes is iterated in an order the program does not control: set_order
\* is the order in which the rows of the covering node come out of a set.
BuildMembers(h, cluster, i, bf, set_order) ==
    IF i = 0 \/ h.exc # "" THEN h
    ELSE With({h.ns[cluster[i]].children[j] : j \in DOMAIN h.ns[cluster[i]].children} \ h.current_set,
              LAMBDA new_children :
                 IF \E c \in new_children : ~Contains(h.ns[cluster[1]].children, c)
                 THEN [h EXCEPT !.exc = "ValueError"]
                 ELSE With(BuildMember(h, cluster[i], cluster[1], bf, new_children, set_order),
                           LAMBDA h1 : BuildMembers(h1, cluster, i - 1, bf, set_order)))

build_array_from_cluster(h, cluster, set_order) ==
    With(AddNode(h.ns, BufferNode(h.ns[cluster[1]].varname \o "_buffer", size(h.ns[cluster[1]].shape))),
         LAMBDA ns1 :
    With(BuildMembers([ns |-> ns1, exc |-> "", last |-> Len(ns1), current_set |-> {}],
                      cluster, Len(cluster), Len(ns1), set_order),
         LAMBDA r : [ns |-> r.ns, exc |-> r.exc]))

RECURSIVE MergeClusters(_, _, _, _)
\* for cluster in clusters: ...
MergeClusters(h, clusters, i, set_order) ==
    IF i > Len(clusters) \/ h.exc # "" THEN h
    ELSE With(has_dependencies(h.ns, clusters[i]), LAMBDA dep :
              IF dep = "RecursionError" THEN [h EXCEPT !.exc = dep]
              ELSE With(IF dep = "yes" THEN build_array_from_cluster(h, clusters[i], set_order)
                        ELSE replace_array_node_with_index_node(h, clusters[i]),
                        LAMBDA h1 : MergeClusters(h1, clusters, i + 1, set_order)))

\* The array nodes of a graph in the order merge_array sorts them.
SortedArrays(ns, g) ==
    With(FindFromRoots(ns, g, 1, [visited |-> {}, array_nodes |-> <<>>]),
         LAMBDA array_nodes : SortBySize(ns, array_nodes, <<>>))

merge_array(ns, g, set_order) ==
    With(SortedArrays(ns, g), LAMBDA sorted_arrays :
    With(cluster_ranges(ns, sorted_arrays), LAMBDA c :
         IF c.exc # "" THEN [ns |-> ns, exc |-> c.exc]
         ELSE MergeClusters([ns |-> ns, exc |-> ""], c.clusters, 1, set_order)))
(***************************************************************************)
(* array_inplace (optimizations/array_inplace.py)                          *)
(***************************************************************************)
RECURSIVE data_type(_, _)
\* The data_type property of each node class; "n" is DataType.Number, the
\* type of every cell of the modelled sheets.
data_type(ns, n) ==
    CASE ns[n].kind \in {"ExcelArray", "Index", "BufferIndex", "Output"} -> data_type(ns, ns[n].children[1])
      [] ns[n].kind = "Conditional" -> data_type(ns, ns[n].children[2])
      [] OTHER -> "n"

\* The registry entries that are NumpyUFunction: in_place_supported() is True.
InPlaceFunctions == {"ABS"}

\* FunctionOpNode.in_place_supported
in_place_supported(ns, n) ==
    /\ Len(ns[n].children) = 1
    /\ ~is_scalar(compute_shape(ns, ns[n]).shape)
    /\ data_type(ns, ns[n].children[1]) = data_type(ns, n)
    /\ Len(ns[ns[n].children[1]].parents) = 1
    /\ ns[n].fn \in InPlaceFunctions

RECURSIVE inplace_exec_recursive(_, _)
RECURSIVE InplaceChildren(_, _, _)
InplaceChildren(h, n, i) ==
    IF i > Len(h.ns[n].children) THEN h
    ELSE With(inplace_exec_recursive(h, h.ns[n].children[i]), LAMBDA h1 : InplaceChildren(h1, n, i + 1))

\* _exec_recursive of array_inplace
inplace_exec_recursive(h, n) ==
    IF n \in h.visited THEN h
    ELSE With(InplaceChildren([h EXCEPT !.visited = @ \cup {n}], n, 1), LAMBDA r :
              IF r.ns[n].kind = "FunctionOp" /\ in_place_supported(r.ns, n)
              THEN [r EXCEPT !.ns[n].in_place = TRUE]
              ELSE r)

RECURSIVE InplaceRoots(_, _, _)
InplaceRoots(h, g, i) ==
    IF i > Len(g) THEN h
    ELSE With(inplace_exec_recursive(h, g[i].node), LAMBDA h1 : InplaceRoots(h1, g, i + 1))

array_inplace(ns, g) == InplaceRoots([ns |-> ns, visited |-> {}], g, 1).ns

(***************************************************************************)
(* lazy_conditional (optimizations/lazy_conditional.py)                    *)
(***************************************************************************)
\* ConditionalNode(node): the children of the function node.  fn keeps the
\* function whose value the If statement assigns.
ConditionalNode(nd) == NodeRec("Conditional", nd.varname, nd.children, Rat(0, 1), "", nd.fn, NoShape)

\* new_node = ConditionalNode(node); node.replace_in_graph(new_node)
MakeConditional(ns, n) ==
    With(AddNode(ns, ConditionalNode(ns[n])), LAMBDA ns1 :
    With(RemoveParentOfEach(ns1, ns1[n].children, 1, n), LAMBDA ns2 :
         replace_in_graph(ns2, n, Len(ns2))))

RECURSIVE lazy_exec_recursive(_, _)
RECURSIVE LazyChildren(_, _, _)
LazyChildren(h, n, i) ==
    IF i > Len(h.ns[n].children) THEN h
    ELSE With(lazy_exec_recursive(h, h.ns[n].children[i]), LAMBDA h1 : LazyChildren(h1, n, i + 1))

\* _exec_recursive of lazy_conditional
lazy_exec_recursive(h, n) ==
    IF n \in h.visited THEN h
    ELSE With(LazyChildren([h EXCEPT !.visited = @ \cup {n}], n, 1), LAMBDA r :
              IF /\ r.ns[n].kind = "FunctionOp"
                 /\ r.ns[n].fn = "IF"
                 /\ NodeShape(r.ns, n).shape = SCALAR_SHAPE
              THEN [r EXCEPT !.ns = MakeConditional(r.ns, n)]
              ELSE r)

RECURSIVE LazyEach(_, _, _)
\* for child in children: _exec_recursive(child, visited)
LazyEach(h, children, i) ==
    IF i > Len(children) THEN h
    ELSE With(lazy_exec_recursive(h, children[i]), LAMBDA h1 : LazyEach(h1, children, i + 1))

RECURSIVE LazyRoots(_, _, _)
LazyRoots(h, g, i) ==
    IF i > Len(g) THEN h
    ELSE With(h.ns[g[i].node].children, LAMBDA children :
         With(LazyEach(h, children, 1), LAMBDA h1 : LazyRoots(h1, g, i + 1)))

lazy_conditional(ns, g) == LazyRoots([ns |-> ns, visited |-> {}], g, 1).ns

(***************************************************************************)
(* Code generation: generate_ast_tree (nodes/node.py, lazy_conditional.py) *)
(* and ast_function_body (ast.py).  A statement is named by the node whose *)
(* ast it is; an If statement carries its two blocks.                      *)
(***************************************************************************)
Stmt(n) == [node |-> n, body |-> <<>>, orelse |-> <<>>]

\* ast.If(test, body + [assign true_node], orelse + [assign false_node])
IfStmt(n, body, orelse) == [node |-> n, body |-> body, orelse |-> orelse]

\* ast.Return, which belongs to no node.
ReturnStmt == Stmt(0)

\* Whether the ast property of a node is a statement (it is None otherwise).
has_ast(ns, n) ==
    CASE ns[n].kind \in {"Input", "Index", "BufferIndex"} -> FALSE
      [] ns[n].kind = "Literal" -> ns[n].shape # SCALAR_SHAPE
      [] ns[n].kind = "Output" -> is_vector(NodeShape(ns, n).shape)
      [] OTHER -> TRUE

\* The result of a generate_ast_tree call: its statements, the visited set
\* it leaves, and the exception that ended it.
NoStmts(visited) == [stmts |-> <<>>, visited |-> visited, exc |-> ""]

\* stmts.extend(r.stmts) after the call that returned r.
Extend(e, r) ==
    IF e.exc # "" THEN e
    ELSE [stmts |-> e.stmts \o r.stmts, visited |-> r.visited, exc |-> r.exc]

RECURSIVE DepthPass(_, _, _, _)
\* Pass 1 of _split_branch: the while loop over the stack todo.  depth is -1 for
\* a node that is not in depth_dict; keys is the order of insertion.  On a
\* graph with a cycle the loop never ends and the stack grows.
DepthPass(ns, todo, depth, keys) ==
    IF todo = <<>> THEN [depth |-> depth, keys |-> keys, exc |-> ""]
    ELSE With(todo[Len(todo)], LAMBDA top :
         With(SubSeq(todo, 1, Len(todo) - 1), LAMBDA rest :
              IF top[2] > Len(ns) THEN [depth |-> depth, keys |-> keys, exc |-> "MemoryError"]
              ELSE IF depth[top[1]] = 0 - 1 \/ top[2] > depth[top[1]]
              THEN With(rest \o [i \in DOMAIN ns[top[1]].children |-> <<ns[top[1]].children[i], top[2] + 1>>],
                        LAMBDA todo1 :
                   With([depth EXCEPT ![top[1]] = top[2]], LAMBDA depth1 :
                   With(IF depth[top[1]] = 0 - 1 THEN Append(keys, top[1]) ELSE keys, LAMBDA keys1 :
                        DepthPass(ns, todo1, depth1, keys1))))
              ELSE DepthPass(ns, rest, depth, keys)))

RECURSIVE InsertByDepth(_, _, _)
InsertByDepth(depth, sorted, x) ==
    IF sorted = <<>> THEN <<x>>
    ELSE IF depth[Head(sorted)] <= depth[x] THEN <<Head(sorted)>> \o InsertByDepth(depth, Tail(sorted), x)
    ELSE <<x>> \o sorted

RECURSIVE SortByDepth(_, _, _)
\* sorted(depth_dict.items(), key=depth): stable
SortByDepth(depth, keys, sorted) ==
    IF keys = <<>> THEN sorted
    ELSE With(InsertByDepth(depth, sorted, Head(keys)), LAMBDA s : SortByDepth(depth, Tail(keys), s))

RECURSIVE generate_ast_tree(_, _, _)
RECURSIVE GenerateChildren(_, _, _, _)
RECURSIVE SplitLoop(_, _, _, _, _)

\* for child in self._children: stmts += child.generate_ast_tree(visited)
GenerateChildren(ns, children, i, e) ==
    IF i > Len(children) \/ e.exc # "" THEN e
    ELSE With(generate_ast_tree(ns, children[i], e.visited), LAMBDA r :
         With(Extend(e, r), LAMBDA e1 : GenerateChildren(ns, children, i + 1, e1)))

\* Pass 2 of _split_branch: a node all of whose parents are included is
\* included; the tree of any other node goes in front of the If.
SplitLoop(ns, ordered_nodes, i, included, e) ==
    IF i > Len(ordered_nodes) \/ e.exc # "" THEN e
    ELSE IF parents_set(ns, ordered_nodes[i]) \ included = {}
    THEN SplitLoop(ns, ordered_nodes, i + 1, included \cup {ordered_nodes[i]}, e)
    ELSE With(generate_ast_tree(ns, ordered_nodes[i], e.visited), LAMBDA r :
         With(Extend(e, r), LAMBDA e1 : SplitLoop(ns, ordered_nodes, i + 1, included, e1)))

\* _split_branch(node, stmts, visited)
split_branch(ns, node, e) ==
    IF e.exc # "" THEN e
    ELSE IF Cardinality(parents_set(ns, node)) > 1
    THEN With(generate_ast_tree(ns, node, e.visited), LAMBDA r : Extend(e, r))
    ELSE IF Cardinality(parents_set(ns, node)) # 1 THEN [e EXCEPT !.exc = "AssertionError"]
    ELSE With(DepthPass(ns, <<<<node, 0>>>>, [k \in DOMAIN ns |-> 0 - 1], <<>>), LAMBDA d :
              IF d.exc # "" THEN [e EXCEPT !.exc = d.exc]
              ELSE With(SortByDepth(d.depth, d.keys, <<>>), LAMBDA ordered_nodes :
                        SplitLoop(ns, ordered_nodes, 1, parents_set(ns, node), e)))

\* ConditionalNode.generate_ast_tree after visited.add(self)
ConditionalTree(ns, n, visited) ==
    With(split_branch(ns, ns[n].children[2], NoStmts(visited)), LAMBDA s1 :
    With(split_branch(ns, ns[n].children[3], s1), LAMBDA s2 :
    With(Extend(s2, generate_ast_tree(ns, ns[n].children[1], s2.visited)), LAMBDA s3 :
         IF s3.exc # "" THEN s3
         ELSE With(generate_ast_tree(ns, ns[n].children[2], s3.visited), LAMBDA true_statements :
              IF true_statements.exc # "" THEN true_statements
              ELSE With(generate_ast_tree(ns, ns[n].children[3], true_statements.visited),
                        LAMBDA false_statements :
                   IF false_statements.exc # "" THEN false_statements
                   ELSE [stmts |-> Append(s3.stmts, IfStmt(n, true_statements.stmts, false_statements.stmts)),
                         visited |-> false_statements.visited, exc |-> ""])))))

\* Node.generate_ast_tree and its override in ConditionalNode.  A visited
\* ConditionalNode returns None, which no caller can extend a list with.
generate_ast_tree(ns, n, visited) ==
    IF ns[n].kind = "Conditional"
    THEN IF n \in visited THEN [stmts |-> <<>>, visited |-> visited, exc |-> "TypeError"]
         ELSE ConditionalTree(ns, n, visited \cup {n})
    ELSE IF n \in visited THEN NoStmts(visited)
    ELSE With(GenerateChildren(ns, ns[n].children, 1, NoStmts(visited \cup {n})), LAMBDA e :
              IF e.exc = "" /\ has_ast(ns, n) THEN [e EXCEPT !.stmts = Append(@, Stmt(n))] ELSE e)

RECURSIVE GenerateRoots(_, _, _, _)
\* for cell, ref in graph: statement_list.extend(ref.generate_ast_tree(visited))
GenerateRoots(ns, g, i, e) ==
    IF i > Len(g) \/ e.exc # "" THEN e
    ELSE With(generate_ast_tree(ns, g[i].node, e.visited), LAMBDA r :
         With(Extend(e, r), LAMBDA e1 : GenerateRoots(ns, g, i + 1, e1)))

\* ast_function_body: the statements of the outputs and the Return.
ast_function_body(ns, g) ==
    With(GenerateRoots(ns, g, 1, NoStmts({})), LAMBDA e :
         IF e.exc # "" THEN e ELSE [e EXCEPT !.stmts = Append(@, ReturnStmt)])
(***************************************************************************)
(* The passes as steps: a caller applies passes of OPTIMIZATION_LIST to a  *)
(* graph in the order of the list, as optimize_graph does with all of them *)
(* and the tests do with one, and then generates the function body.        *)
(***************************************************************************)
passRest == <<wb, outCalls, inCalls, outputs, output_cells, inputs, input_cells, references, stack,
              tokgen, result_keys, frameLog, finalLog, pushLog, arg, ret>>

\* A caller holds graph b and has applied no pass.
PassStart(b) ==
    /\ nodes = b.ns /\ graph = b.graph
    /\ wb = [c \in FormulaCells |-> 1]
    /\ outCalls = 0 /\ inCalls = 0
    /\ outputs = <<>> /\ output_cells = <<>> /\ inputs = <<>> /\ input_cells = <<>>
    /\ references = <<>> /\ stack = <<>> /\ tokgen = 0 /\ result_keys = {}
    /\ pc = "codegen" /\ err = ""
    /\ frameLog = <<>> /\ finalLog = <<>> /\ pushLog = <<>>
    /\ PassIdle

PassInit == \E b \in PassGraphs : PassStart(b)

SharedInit == \E b \in SharedGraphs : PassStart(b)

\* The position of a pass in OPTIMIZATION_LIST.
PassIndex(name) == IndexOf(OPTIMIZATION_LIST, name)

\* A pass may follow the passes applied so far.
MayRun(name) ==
    /\ pc = "codegen" /\ statement_list = <<>>
    /\ \A i \in DOMAIN passes_run : PassIndex(passes_run[i]) < PassIndex(name)

\* What numpy.random can give a statement the pass executes.
Draws == 0..1

CollapseLiterals ==
    /\ MayRun("collapse_literals")
    /\ \E draw \in Draws : nodes' = collapse_literals(nodes, graph, draw)
    /\ passes_run' = Append(passes_run, "collapse_literals")
    /\ UNCHANGED <<passRest, graph, pc, err, statement_list>>

\* The orders in which the rows of an array can come out of a set.
SetOrders == {p \in [1..PassCells -> 1..PassCells] : \A i, j \in 1..PassCells : i # j => p[i] # p[j]}

\* A pass raised: the compile ends with the exception.
PassRaise(e) ==
    /\ pc' = "failed" /\ err' = e
    /\ UNCHANGED <<passRest, nodes, graph, passes_run, statement_list>>

MergeArray ==
    /\ MayRun("merge_array")
    /\ \E set_order \in SetOrders :
          LET r == merge_array(nodes, graph, set_order)
          IN  IF r.exc # "" THEN PassRaise(r.exc)
              ELSE /\ nodes' = r.ns
                   /\ passes_run' = Append(passes_run, "merge_array")
                   /\ UNCHANGED <<passRest, graph, pc, err, statement_list>>

ArrayInplace ==
    /\ MayRun("array_inplace")
    /\ nodes' = array_inplace(nodes, graph)
    /\ passes_run' = Append(passes_run, "array_inplace")
    /\ UNCHANGED <<passRest, graph, pc, err, statement_list>>

LazyConditional ==
    /\ MayRun("lazy_conditional")
    /\ nodes' = lazy_conditional(nodes, graph)
    /\ passes_run' = Append(passes_run, "lazy_conditional")
    /\ UNCHANGED <<passRest, graph, pc, err, statement_list>>

\* ast_function_body on the graph the passes have left.
EmitBody ==
    /\ pc = "codegen" /\ statement_list = <<>>
    /\ LET r == ast_function_body(nodes, graph)
       IN  IF r.exc # "" THEN PassRaise(r.exc)
           ELSE /\ statement_list' = r.stmts
                /\ UNCHANGED <<passRest, nodes, graph, pc, err, passes_run>>
(***************************************************************************)
(* Node.replace_in_graph as a call of its own: a pass or a caller holding  *)
(* a graph replaces a node that has parents by a node it has just built or *)
(* by another node of the graph.                                           *)
(***************************************************************************)
\* The number of entries of sequence s that are x.
CountOf(s, x) == Cardinality({i \in DOMAIN s : s[i] = x})

\* assert old in self._children passes in every call of replace_child: no
\* parent is listed more often than it holds old.
HeldByParents(ns, old) ==
    \A p \in {ns[old].parents[i] : i \in DOMAIN ns[old].parents} : CountOf(ns[old].parents, p) <= CountOf(ns[p].children, old)

\* The nodes the passes replace: a node with children (collapse_literals),
\* an array (merge_array), a call of IF (lazy_conditional).
Replaceable(ns) ==
    {n \in DOMAIN ns : ns[n].kind \notin {"Literal", "Output"} /\ ns[n].children # <<>> /\ ns[n].parents # <<>>}

\* new_node = LiteralNode(node.varname, value); node.replace_in_graph(new_node)
ReplaceByFresh ==
    /\ pc = "codegen" /\ statement_list = <<>> /\ ret = <<>>
    /\ \E old \in Replaceable(nodes) :
          /\ HeldByParents(nodes, old)
          /\ LET ns1 == AddNode(nodes, LiteralNode(nodes[old].varname, Rat(0, 1)))
             IN  /\ arg' = [ns |-> ns1, old |-> old, new |-> Len(ns1)]
                 /\ nodes' = replace_in_graph(ns1, old, Len(ns1))
    /\ ret' = <<"returned">>
    /\ UNCHANGED <<wb, outCalls, inCalls, outputs, output_cells, inputs, input_cells, references, stack,
                   tokgen, graph, result_keys, pc, err, frameLog, finalLog, pushLog, passes_run, statement_list>>

\* node.replace_in_graph(covering_node): new is a node of the graph.
ReplaceByNode ==
    /\ pc = "codegen" /\ statement_list = <<>> /\ ret = <<>>
    /\ \E old \in Replaceable(nodes) : \E new \in DOMAIN nodes \ {old} :
          /\ HeldByParents(nodes, old)
          /\ nodes[new].kind # "Output"
          /\ arg' = [ns |-> nodes, old |-> old, new |-> new]
          /\ nodes' = replace_in_graph(nodes, old, new)
    /\ ret' = <<"returned">>
    /\ UNCHANGED <<wb, outCalls, inCalls, outputs, output_cells, inputs, input_cells, references, stack,
                   tokgen, graph, result_keys, pc, err, frameLog, finalLog, pushLog, passes_run, statement_list>>

\* The graphs with one output.
SingleInit == \E b \in SharedGraphs : Len(b.graph) = 1 /\ PassStart(b)

(***************************************************************************)
(* The formulas of SpecTokens: cell B1 holds a formula drawn from the sets *)
(* below, A1 is the input p, and B1 is the one output.                     *)
(***************************************************************************)
\* The most infix operators of a formula of operands and operators.
MaxOperators == 3

\* The most prefix operators in front of one operand.
MaxPrefix == 2

\* The most tokens between the brackets of the drawn function calls.
MaxBody == 4

NumberText(i) == Digit(i)

\* 1 op 2 op 3 ...: the operands are the numbers in order.
InfixStream(ops) ==
    [i \in 1..(2 * Len(ops) + 1) |->
        IF i % 2 = 1 THEN NumTok(NumberText((i + 1) \div 2)) ELSE InfixTok(ops[i \div 2])]

InfixStreams == {InfixStream(ops) : ops \in UNION {[1..n -> BinOps] : n \in 1..MaxOperators}}

\* k prefix '-' tokens.
Minus(k) == [i \in 1..k |-> PrefixTok("-")]

\* An operand: a literal, a range that is an input, a range that is a cell,
\* a function call, a parenthesized group.
OperandForms ==
    {<<NumTok("1")>>, <<RangeTok("A1")>>, <<RangeTok("A2")>>,
     <<FuncOpen("SUM("), RangeTok("A1:A2"), FuncClose>>,
     <<ParenOpen, NumTok("1"), InfixTok("+"), NumTok("2"), ParenClose>>}

\* -..-operand and -..-operand + -..-3
PrefixStreams ==
    {Minus(k) \o u : k \in 0..MaxPrefix, u \in OperandForms}
    \cup {Minus(k) \o u \o <<InfixTok("+")>> \o Minus(j) \o <<NumTok("3")>> :
             k \in 0..MaxPrefix, u \in OperandForms, j \in 0..1}

\* The depth of brackets after each token of a stream, 0 - 1 once a close
\* has no open.
RECURSIVE DepthAfter(_, _)
DepthAfter(tokens, k) ==
    IF k = 0 THEN 0
    ELSE LET d == DepthAfter(tokens, k - 1)
         IN  IF d < 0 THEN d
             ELSE IF tokens[k].type \in {"FUNC", "PAREN"}
                  THEN IF tokens[k].subtype = "OPEN" THEN d + 1 ELSE d - 1
                  ELSE d

\* Every close has its open and every open its close.
Balanced(tokens) ==
    /\ \A k \in DOMAIN tokens : DepthAfter(tokens, k) >= 0
    /\ DepthAfter(tokens, Len(tokens)) = 0

BodyTokens == {NumTok("1"), SepTok, ParenOpen, ParenClose, FuncOpen("SUM("), FuncClose}

Bodies == {b \in UNION {[1..n -> BodyTokens] : n \in 0..MaxBody} : Balanced(b)}

\* SUM(body) and SUM(body)+2
CallStreams ==
    {<<FuncOpen("SUM(")>> \o b \o <<FuncClose>> \o t : b \in Bodies, t \in {<<>>, <<InfixTok("+"), NumTok("2")>>}}

\* Streams of operands and operators in any order, the empty one included.
LooseStreams == UNION {[1..n -> {NumTok("1"), InfixTok("+"), InfixTok("*"), PrefixTok("-")}] : n \in 0..3}

TokenStreams == InfixStreams \cup PrefixStreams \cup CallStreams \cup LooseStreams

\* Compiler(wb) after add_input('p', 'A1') and add_output('x', 'B1'), the
\* formula of B1 being arg.
TokensInit ==
    /\ arg \in TokenStreams
    /\ ret = <<>> /\ passes_run = <<>> /\ statement_list = <<>>
    /\ wb = [c \in FormulaCells |-> IF c = "B1" THEN 0 ELSE 1]
    /\ outCalls = 1 /\ inCalls = 1
    /\ outputs = <<[k |-> "x", v |-> Ref("B1")]>>
    /\ output_cells = <<[k |-> Ref("B1"), v |-> "x"]>>
    /\ inputs = <<[k |-> "p", v |-> Ref("A1")]>>
    /\ input_cells = <<[k |-> Ref("A1"), v |-> "p"]>>
    /\ references = <<>> /\ stack = <<>> /\ nodes = <<>> /\ tokgen = 0
    /\ graph = <<>> /\ result_keys = {}
    /\ pc = "setup" /\ err = ""
    /\ frameLog = <<>> /\ finalLog = <<>> /\ pushLog = <<>>

(***************************************************************************)
(* Claims about the optimisation passes                                    *)
(***************************************************************************)
\* A node all of whose leaves are literals, with at least one child.
RECURSIVE AllLiteralLeaves(_, _)
AllLiteralLeaves(ns, n) ==
    IF ns[n].children = <<>> THEN ns[n].kind = "Literal"
    ELSE \A i \in DOMAIN ns[n].children : AllLiteralLeaves(ns, ns[n].children[i])

\* A node that collapse_literals should have folded.
Foldable(ns, n) ==
    /\ ns[n].kind # "Output"
    /\ ns[n].children # <<>>
    /\ \A i \in DOMAIN ns[n].children : ns[ns[n].children[i]].kind = "Literal"

CollapseStep == passes_run' = Append(passes_run, "collapse_literals")

\* C14: after collapse_literals every Output node is still a root of the
\* graph, no other reachable node has at least one child and only Literal
\* children, every sub-DAG with only Literal leaves has become, in each
\* parent that is kept, a single Literal holding the value of the sub-DAG,
\* and the outputs have the values they had.
C14_CollapseFoldsEverything ==
    [][CollapseStep =>
        /\ graph' = graph
        /\ \A r \in Roots(graph) : nodes'[r].kind = "Output" /\ nodes'[r].parents = <<>>
        /\ \A n \in Reachable(nodes', graph') : ~Foldable(nodes', n)
        /\ \A n \in Reachable(nodes, graph) : \A i \in DOMAIN nodes[n].children :
              LET old == nodes[n].children[i]
                  new == nodes'[n].children[i]
              IN  (AllLiteralLeaves(nodes, old) /\ (nodes[n].kind = "Output" \/ ~AllLiteralLeaves(nodes, n))) =>
                      /\ nodes'[new].kind = "Literal"
                      /\ nodes'[new].children = <<>>
                      /\ Eval(nodes', new, NoArguments) = Eval(nodes, old, NoArguments)
                      /\ nodes'[new].shape = NodeShape(nodes, old).shape
        /\ \A env \in [InputNames -> ArgumentValues] :
              GraphValues(nodes', graph', env) = GraphValues(nodes, graph, env)]_vars

\* collapse_literals has folded a shared node: two outputs are computed
\* from one Literal that was built by the pass.
C14_Witness ==
    /\ passes_run = <<"collapse_literals">>
    /\ Len(graph) = 2
    /\ nodes[graph[1].node].children = nodes[graph[2].node].children
    /\ LET n == nodes[graph[1].node].children[1]
       IN  nodes[n].kind = "Literal" /\ n > graph[2].node /\ Len(nodes[n].parents) = 2

\* The set of the elements of a sequence.
Range(s) == {s[i] : i \in DOMAIN s}

MergeStep == passes_run' = Append(passes_run, "merge_array")

\* The clusters merge_array finds in a graph.
ClustersOf(ns, g) == cluster_ranges(ns, SortedArrays(ns, g)).clusters

\* The clusters among cl whose members do not depend on each other.
IndependentClusters(ns, cl) == {c \in Range(cl) : has_dependencies(ns, c) = "no"}

\* new stands for member m of a cluster with covering node cov: it is cov
\* itself, or an Index on cov that selects the children of m in their order
\* and has the shape of m.
StandsFor(ns, post, new, m, cov) ==
    \/ ns[m].children = ns[cov].children /\ new = cov
    \/ /\ post[new].kind = "Index"
       /\ post[new].children = <<cov>>
       /\ post[new].idx[1][1] >= 0
       /\ post[new].idx[1][2] <= Len(post[cov].children)
       /\ SubSeq(post[cov].children, post[new].idx[1][1] + 1, post[new].idx[1][2]) = ns[m].children
       /\ NodeShape(post, new).shape = ns[m].shape

\* C15: merge_array replaces every non-largest member of a cluster without
\* dependencies, in each of its parents, by the covering node or by an
\* Index view that selects the member's children and has its shape; of the
\* arrays of the cluster only the covering one stays reachable; and when no
\* cluster has a dependency the outputs keep their values.
C15_MergeViewsPreserveValues ==
    [][MergeStep =>
        LET cl == ClustersOf(nodes, graph)
            independent == IndependentClusters(nodes, cl)
        IN
        /\ graph' = graph
        /\ \A c \in independent :
              /\ c[1] \in Reachable(nodes', graph')
              /\ nodes'[c[1]].kind = "ExcelArray"
              /\ nodes'[c[1]].children = nodes[c[1]].children
              /\ \A i \in 2..Len(c) :
                    /\ c[i] \notin Reachable(nodes', graph')
                    /\ \A p \in parents_set(nodes, c[i]) : \A j \in DOMAIN nodes[p].children :
                          nodes[p].children[j] = c[i] =>
                              StandsFor(nodes, nodes', nodes'[p].children[j], c[i], c[1])
        /\ independent = Range(cl)
              => \A env \in [InputNames -> ArgumentValues] :
                    GraphValues(nodes', graph', env) = GraphValues(nodes, graph, env)]_vars

\* merge_array has turned one array into a view and another into the
\* covering node itself: an Index node with a parent is reachable, no
\* buffer was built, and the covering node has two parents.
C15_Witness ==
    /\ passes_run = <<"merge_array">>
    /\ \A n \in DOMAIN nodes : nodes[n].kind # "Buffer"
    /\ \E n \in Reachable(nodes, graph) :
          /\ nodes[n].kind = "Index"
          /\ nodes[n].parents # <<>>
          /\ nodes[nodes[n].children[1]].kind = "ExcelArray"
          /\ nodes[n].idx[1][1] > 0

RECURSIVE Flatten(_)
\* The nodes of the statements of a block in the order of the text, the
\* statements of the blocks of an If before the node of the If.
Flatten(stmts) ==
    IF stmts = <<>> THEN <<>>
    ELSE Flatten(Head(stmts).body) \o Flatten(Head(stmts).orelse) \o <<Head(stmts).node>> \o Flatten(Tail(stmts))

\* The nodes of the emitted statements, the Return left out.
Emitted == SelectSeq(Flatten(statement_list), LAMBDA n : n # 0)

\* Statement k reads rows of a buffer through BufferIndex x, and every one of
\* these rows is assigned by an earlier statement.
SlicesWritten(order, k) ==
    \A i \in DOMAIN nodes[order[k]].children :
        LET x == nodes[order[k]].children[i]
        IN  nodes[x].kind = "BufferIndex" =>
                \A slot \in nodes[x].idx[1][1]..(nodes[x].idx[1][2] - 1) :
                    \E j \in 1..(k - 1) :
                        /\ nodes[order[j]].kind = "BufferAssignment"
                        /\ nodes[order[j]].varname = nodes[nodes[x].children[1]].varname
                        /\ nodes[order[j]].idx = slot

\* The BufferAssignment of statement k comes after the allocation of its
\* buffer and after the assignment it is chained to.
ChainedInOrder(order, k) ==
    nodes[order[k]].kind = "BufferAssignment" =>
        /\ \E j \in 1..(k - 1) : order[j] = nodes[order[k]].children[2]
        /\ \E j \in 1..(k - 1) :
              nodes[order[j]].kind = "Buffer" /\ nodes[order[j]].varname = nodes[order[k]].varname

\* The cells that are assigned to a buffer.
BufferedCells(bf) ==
    {nodes[a].children[1] : a \in {b \in DOMAIN nodes : nodes[b].kind = "BufferAssignment"
                                                        /\ nodes[b].varname = nodes[bf].varname}}

\* C16: in the generated statements every row of the slice of a BufferIndex
\* is assigned before a statement reads through the BufferIndex, every
\* BufferAssignment follows the allocation of the buffer and the assignment
\* it is chained to, and no array of a cluster that was turned into a buffer
\* is reachable.
C16_BufferWrittenBeforeRead ==
    statement_list # <<>> =>
        /\ \A k \in DOMAIN Emitted : SlicesWritten(Emitted, k) /\ ChainedInOrder(Emitted, k)
        /\ \A bf \in DOMAIN nodes : nodes[bf].kind = "Buffer" =>
              \A e \in Reachable(nodes, graph) :
                  nodes[e].kind = "ExcelArray" =>
                      ~({nodes[e].children[i] : i \in DOMAIN nodes[e].children} \subseteq BufferedCells(bf))


RECURSIVE StorageOf(_, _)
\* The node whose statement allocates the array a reference to n denotes:
\* a view denotes the array it is a view of, and an in-place call the
\* array it has changed.
StorageOf(ns, n) ==
    IF ns[n].kind \in {"Index", "BufferIndex"} \/ (ns[n].kind = "FunctionOp" /\ ns[n].in_place)
    THEN StorageOf(ns, ns[n].children[1])
    ELSE n

\* The nodes whose value the statement of m reads.
Operands(ns, m) ==
    IF ns[m].kind \in {"Index", "BufferIndex"} THEN {}
    ELSE IF ns[m].kind = "BufferAssignment" THEN {ns[m].children[1]}
    ELSE {ns[m].children[i] : i \in DOMAIN ns[m].children}

\* C17: the array an in-place call changes is read by no other reachable
\* node and is not an argument of the compiled function.
C17_InPlaceStorageUnshared ==
    \A n \in Reachable(nodes, graph) :
        (nodes[n].kind = "FunctionOp" /\ nodes[n].in_place) =>
            /\ nodes[StorageOf(nodes, nodes[n].children[1])].kind # "Input"
            /\ \A m \in Reachable(nodes, graph) \ {n} : \A x \in Operands(nodes, m) \ {n} :
                  StorageOf(nodes, x) # StorageOf(nodes, nodes[n].children[1])

\* The nodes that are reachable from the outputs without the edge from
\* Conditional c to the branch in slot.
ReachableWithout(c, slot) ==
    ChildClosure([nodes EXCEPT ![c].children = SubSeq(@, 1, slot - 1) \o SubSeq(@, slot + 1, Len(@))],
                 Roots(graph))

\* The nodes with a statement that are reachable through one branch only.
OnlyThrough(c, slot) ==
    {x \in Descendants(nodes, nodes[c].children[slot]) \ ReachableWithout(c, slot) : has_ast(nodes, x)}

\* The nodes with a statement below a branch that have a parent outside the
\* sub-DAG of the branch, and those the condition is computed from.
NeededBefore(c) ==
    {x \in Descendants(nodes, nodes[c].children[1]) : has_ast(nodes, x)}
    \cup UNION {{x \in Descendants(nodes, nodes[c].children[slot]) :
                    /\ has_ast(nodes, x)
                    /\ \E m \in Reachable(nodes, graph) \ (Descendants(nodes, nodes[c].children[slot]) \cup {c}) :
                          x \in Range(nodes[m].children)} : slot \in {2, 3}}

\* The node whose statement assigns the variable a reference to x reads.
VariableOf(x) == IF nodes[x].kind \in {"Index", "BufferIndex"} THEN nodes[x].children[1] ELSE x

\* Every variable that the statements of a block and its closing
\* assignment from branch read has been assigned, given the nodes whose
\* statements ran before the block.
BlockReadsAssigned(block, before, branch) ==
    /\ \A k \in DOMAIN block : \A x \in Operands(nodes, block[k]) :
          has_ast(nodes, VariableOf(x)) => VariableOf(x) \in before \cup {block[j] : j \in 1..(k - 1)}
    /\ has_ast(nodes, VariableOf(branch)) => VariableOf(branch) \in before \cup Range(block)

\* C18: in the statement of a Conditional the nodes reachable only through
\* the true branch are emitted in the body only and those reachable only
\* through the false branch in the else block only; the nodes with a parent
\* outside the sub-DAG of a branch and the nodes of the condition are
\* emitted before the If; and every variable a block reads was assigned
\* before the If or earlier in the block.
C18_ExclusiveInIf(k) ==
    LET s == statement_list[k]
        before == {statement_list[j].node : j \in 1..(k - 1)}
    IN  /\ \A x \in OnlyThrough(s.node, 2) :
              x \in Range(Flatten(s.body)) /\ x \notin before /\ x \notin Range(Flatten(s.orelse))
        /\ \A x \in OnlyThrough(s.node, 3) :
              x \in Range(Flatten(s.orelse)) /\ x \notin before /\ x \notin Range(Flatten(s.body))

C18_SharedBefore(k) == NeededBefore(statement_list[k].node) \subseteq {statement_list[j].node : j \in 1..(k - 1)}

C18_ReadsAssigned(k) ==
    LET s == statement_list[k]
        before == {statement_list[j].node : j \in 1..(k - 1)}
    IN  /\ BlockReadsAssigned(Flatten(s.body), before, nodes[s.node].children[2])
        /\ BlockReadsAssigned(Flatten(s.orelse), before, nodes[s.node].children[3])

IfStatements == {k \in DOMAIN statement_list :
                    statement_list[k].node # 0 /\ nodes[statement_list[k].node].kind = "Conditional"}

C18_ConditionalEmitsBranchesLazily ==
    \A k \in IfStatements : C18_ExclusiveInIf(k) /\ C18_SharedBefore(k) /\ C18_ReadsAssigned(k)
(***************************************************************************)
(* Stochastic nodes, code generation and the links between nodes           *)
(***************************************************************************)
\* The classes of nodes/random.py.
Stochastic == {"RandomValue", "RandBetween"}

\* C21: collapse_literals never replaces a stochastic node by a Literal:
\* every RandomValue or RandBetween node some output is computed from before
\* the pass is still such a node some output is computed from after it,
\* also when both bounds of a RandBetween node are Literals.
C21_CollapseKeepsStochasticNodes ==
    [][CollapseStep =>
          \A n \in Reachable(nodes, graph) :
              nodes[n].kind \in Stochastic
                  => n \in Reachable(nodes', graph') /\ nodes'[n].kind = nodes[n].kind]_vars

\* The places of node n in the emitted statements.
PlacesOf(n) == {k \in DOMAIN Emitted : Emitted[k] = n}

\* C22: code generation emits the statement of every node reachable from
\* the outputs exactly once and after the statements of all of its
\* children, also for a node with several parents, and never fails because
\* a node is reached a second time.
C22_EveryStatementOnceAfterChildren ==
    /\ pc = "failed" => err # "TypeError"
    /\ statement_list # <<>> =>
          \A n \in Reachable(nodes, graph) :
              has_ast(nodes, n) =>
                  /\ Cardinality(PlacesOf(n)) = 1
                  /\ \A i \in DOMAIN nodes[n].children :
                        has_ast(nodes, nodes[n].children[i]) =>
                            \E k \in PlacesOf(nodes[n].children[i]) : \A j \in PlacesOf(n) : k < j

\* The child slots <<p, i>> of graph ns that hold x.
SlotsOf(ns, x) == {s \in UNION {{<<p, i>> : i \in DOMAIN ns[p].children} : p \in DOMAIN ns} :
                      ns[s[1]].children[s[2]] = x}

\* The slots replace_in_graph has to rewire: those of the parents of old.
Rewired == {s \in SlotsOf(arg.ns, arg.old) : s[1] \in Range(arg.ns[arg.old].parents)}

\* C23: after old.replace_in_graph(new) every child slot that held old in a
\* former parent holds new, also when one parent held old in several
\* slots; every other child slot of every node is unchanged; old has no
\* parents left; and the parent list of new has gained exactly one entry
\* per rewired slot.
C23_ReplaceInGraphFrame ==
    ret # <<>> =>
        /\ DOMAIN nodes = DOMAIN arg.ns
        /\ \A p \in DOMAIN nodes :
              /\ DOMAIN nodes[p].children = DOMAIN arg.ns[p].children
              /\ \A i \in DOMAIN nodes[p].children :
                    nodes[p].children[i] = IF <<p, i>> \in Rewired THEN arg.new ELSE arg.ns[p].children[i]
        /\ nodes[arg.old].parents = <<>>
        /\ Len(nodes[arg.new].parents) = Len(arg.ns[arg.new].parents) + Cardinality(Rewired)
        /\ \A p \in DOMAIN nodes :
              CountOf(nodes[arg.new].parents, p)
                  = CountOf(arg.ns[arg.new].parents, p) + Cardinality({s \in Rewired : s[1] = p})

\* old was held in two slots of one parent after a pass had run, and both
\* slots hold new.
C23_Witness ==
    /\ ret # <<>> /\ passes_run # <<>>
    /\ \E p \in DOMAIN nodes :
          /\ Cardinality({s \in Rewired : s[1] = p}) = 2
          /\ \A s \in Rewired : nodes[s[1]].children[s[2]] = arg.new

\* C24: after the main loop and after each pass, every node n reachable
\* from the outputs lists a reachable node p as a parent exactly as many
\* times as p holds n in a child slot, and lists no node that is no longer
\* reachable: no child edge lacks its back-pointer and no back-pointer
\* names a node that was replaced.
C24_ParentsMatchChildSlots ==
    pc = "codegen" =>
        \A n \in Reachable(nodes, graph) : \A p \in DOMAIN nodes :
            CountOf(nodes[n].parents, p)
                = IF p \in Reachable(nodes, graph) THEN CountOf(nodes[p].children, n) ELSE 0

\* C25: after merge_array no node reachable from the outputs is reachable
\* from its own children along child edges, the sequencing edges of
\* BufferAssignment and BufferIndex nodes included.
C25_MergeLeavesNoCycle ==
    (pc = "codegen" /\ \E i \in DOMAIN passes_run : passes_run[i] = "merge_array") =>
        \A n \in Reachable(nodes, graph) : n \notin ChildClosure(nodes, Range(nodes[n].children))

\* The arrays before idx in arrs whose child variables cover those of
\* arrs[idx].
EarlierSupersets(ns, arrs, idx) ==
    {o \in 1..(idx - 1) : ChildNames(ns, arrs[idx]) \subseteq ChildNames(ns, arrs[o])}

\* The places <<k, i>> of array a in the clusters.
PlacesIn(clusters, a) ==
    {pl \in UNION {{<<k, i>> : i \in DOMAIN clusters[k]} : k \in DOMAIN clusters} : clusters[pl[1]][pl[2]] = a}

\* cluster_ranges(arrs) has clustered the arrays as C30 says.
Clustered(ns, arrs, r) ==
    /\ r.exc = ""
    /\ \A i, j \in DOMAIN arrs : i < j => size(ns[arrs[i]].shape) >= size(ns[arrs[j]].shape)
    /\ \A idx \in DOMAIN arrs : Cardinality(PlacesIn(r.clusters, arrs[idx])) = 1
    /\ \A k \in DOMAIN r.clusters : \A i \in DOMAIN r.clusters[k] :
          /\ r.clusters[k][i] \in Range(arrs)
          /\ size(ns[r.clusters[k][1]].shape) >= size(ns[r.clusters[k][i]].shape)
          /\ ChildNames(ns, r.clusters[k][i]) \subseteq ChildNames(ns, r.clusters[k][1])
    /\ \A idx \in DOMAIN arrs :
          LET supers == EarlierSupersets(ns, arrs, idx)
          IN  \E k \in DOMAIN r.clusters :
                  IF supers = {} THEN r.clusters[k][1] = arrs[idx]
                  ELSE /\ r.clusters[k][1] = arrs[CHOOSE o \in supers : \A q \in supers : o <= q]
                       /\ \E i \in 2..Len(r.clusters[k]) : r.clusters[k][i] = arrs[idx]

\* The graph has been handed to no pass but collapse_literals.
BeforeMerge == pc = "codegen" /\ statement_list = <<>> /\ passes_run \in {<<>>, <<"collapse_literals">>}

\* C30: cluster_ranges partitions the arrays, which are sorted by
\* descending element count: every array is in exactly one cluster, the
\* head of a cluster has the largest element count of the cluster and its
\* child variables cover those of every member, an array joins the cluster
\* of the first earlier array that covers it, and the lookup of that
\* cluster never fails.
C30_ClusterRangesPartition ==
    BeforeMerge =>
        LET arrs == SortedArrays(nodes, graph)
        IN  Clustered(nodes, arrs, cluster_ranges(nodes, arrs))

\* An array is covered by the head of its cluster and by a member of the
\* cluster before it: a cluster has three members.
C30_Witness ==
    /\ BeforeMerge
    /\ LET arrs == SortedArrays(nodes, graph)
           r == cluster_ranges(nodes, arrs)
       IN  /\ \E idx \in DOMAIN arrs : Cardinality(EarlierSupersets(nodes, arrs, idx)) >= 2
           /\ \E k \in DOMAIN r.clusters : Len(r.clusters[k]) >= 3

(***************************************************************************)
(* Formulas: the tree of a formula, prefix operators, brackets, finalize   *)
(***************************************************************************)
\* The key of the output cell of SpecTokens.
OutputKey == RangeKey(Ref("B1"))

\* The main loop has ended with a node for the output cell.
Parsed == pc \in {"loop", "codegen"} /\ stack = <<>> /\ MemoHas(references, OutputKey)

RECURSIVE TreeOf(_, _)
\* The expression a node stands for: its operator and the expressions of
\* its two operands in order, or the number of a literal.
TreeOf(ns, n) ==
    IF ns[n].kind \in {"BinOp", "Comparison"}
    THEN <<ns[n].operator, TreeOf(ns, ns[n].children[1]), TreeOf(ns, ns[n].children[2])>>
    ELSE IF ns[n].kind = "FunctionOp" /\ ns[n].fn = "INTERNAL_CONCAT"
    THEN <<"INTERNAL_CONCAT", TreeOf(ns, ns[n].children[1]), TreeOf(ns, ns[n].children[2])>>
    ELSE <<ns[n].value.num>>

\* What the node of an infix operator is labelled with.
Label(op) == IF op = "&" THEN "INTERNAL_CONCAT" ELSE AstOperator(op)

RECURSIVE Parse(_, _, _)
\* The parse of operands[1] ops[1] operands[2] ... in which an operator of a
\* higher tier binds tighter and operators of one tier associate to the
\* left: the root is the last operator of the lowest tier.
Parse(operands, ops, tier) ==
    IF ops = <<>> THEN <<operands[1]>>
    ELSE LET low == CHOOSE t \in {tier[ops[i]] : i \in DOMAIN ops} : \A i \in DOMAIN ops : t <= tier[ops[i]]
             k == CHOOSE i \in DOMAIN ops : tier[ops[i]] = low /\ \A j \in DOMAIN ops : tier[ops[j]] = low => j <= i
         IN  <<Label(ops[k]),
               Parse(SubSeq(operands, 1, k), SubSeq(ops, 1, k - 1), tier),
               Parse(SubSeq(operands, k + 1, Len(operands)), SubSeq(ops, k + 1, Len(ops)), tier)>>

\* exponent > multiply, divide > add, subtract, concatenate > comparison
FourTiers ==
    [op \in BinOps |-> CASE op = "^" -> 4 [] op \in {"*", "/"} -> 3 [] op \in {"+", "-", "&"} -> 2 [] OTHER -> 1]

\* exponent > multiply, divide > add, subtract > concatenate > comparison
FiveTiers ==
    [op \in BinOps |-> CASE op = "^" -> 5 [] op \in {"*", "/"} -> 4 [] op \in {"+", "-"} -> 3
                         [] op = "&" -> 2 [] OTHER -> 1]

\* The operands and the infix operators of the formula, in source order.
OperandsOf(tokens) == [i \in 1..((Len(tokens) + 1) \div 2) |-> ParseInt(tokens[2 * i - 1].value)]

OperatorsOf(tokens) == [i \in 1..(Len(tokens) \div 2) |-> tokens[2 * i].value]

\* The tree of the formula is its parse with the tiers given.
ParsedAs(tier) ==
    (arg \in InfixStreams /\ Parsed) =>
        TreeOf(nodes, MemoGet(references, OutputKey)) = Parse(OperandsOf(arg), OperatorsOf(arg), tier)

\* C26 as stated: the tree built from a sequence of operands and infix
\* operators is the parse in which exponent binds tighter than multiply and
\* divide, these tighter than add, subtract and concatenate ('&' in the tier
\* of '+' and '-'), these tighter than comparison, operators of one tier
\* associate to the left and operands keep source order.
C26_ConcatInTierOfAdd == ParsedAs(FourTiers)

\* C26: the tree built from a sequence of operands and infix operators is
\* the parse in which exponent binds tighter than multiply and divide, these
\* tighter than add and subtract, these tighter than concatenate, and
\* concatenate tighter than comparison; operators of one tier associate to
\* the left and operands keep source order.
C26_TreeFollowsPrecedence == ParsedAs(FiveTiers)

\* 1&2+3 was parsed: the sum is the right operand of the concatenation.
C26_Witness ==
    /\ arg = InfixStream(<<"&", "+">>) /\ Parsed
    /\ TreeOf(nodes, MemoGet(references, OutputKey)) = <<"INTERNAL_CONCAT", <<1>>, <<"Add", <<2>>, <<3>>>>>>

\* wrap_node_with_multiplier(node, -1, '_neg') built node n.
IsNegation(ns, n) ==
    /\ ns[n].kind = "BinOp" /\ ns[n].operator = "Mult"
    /\ ns[ns[n].children[2]].kind = "Literal"
    /\ ns[ns[n].children[2]].value = Rat(-1, 1)

RECURSIVE Negations(_, _)
\* The number of multiply-by-(-1) wrappers around the operand below node n.
Negations(ns, n) == IF IsNegation(ns, n) THEN 1 + Negations(ns, ns[n].children[1]) ELSE 0

\* The number of prefix tokens at the head of a stream.
RECURSIVE LeadingPrefixes(_)
LeadingPrefixes(tokens) ==
    IF tokens # <<>> /\ Head(tokens).type = "OPERATOR-PREFIX" THEN 1 + LeadingPrefixes(Tail(tokens)) ELSE 0

\* The tokens behind the first infix operator of depth 0, <<>> if none.
RECURSIVE AfterInfix(_, _)
AfterInfix(tokens, depth) ==
    IF tokens = <<>> THEN <<>>
    ELSE IF depth = 0 /\ Head(tokens).type = "OPERATOR-INFIX" THEN Tail(tokens)
    ELSE AfterInfix(Tail(tokens),
                    IF Head(tokens).type \in {"FUNC", "PAREN"}
                    THEN IF Head(tokens).subtype = "OPEN" THEN depth + 1 ELSE depth - 1
                    ELSE depth)

\* C27: every prefix '-' token contributes exactly one multiply-by-(-1)
\* wrapper to the next operand pushed, be it a literal, a resolved range, a
\* function result or a parenthesized group: k prefix tokens in a row wrap
\* the operand k times, and no wrapper is put around an operand pushed later.
C27_EveryPrefixWrapsOnce ==
    (arg \in PrefixStreams /\ Parsed) =>
        LET n == MemoGet(references, OutputKey)
            rest == AfterInfix(arg, 0)
        IN  IF rest = <<>> THEN Negations(nodes, n) = LeadingPrefixes(arg)
            ELSE /\ nodes[n].kind = "BinOp" /\ nodes[n].operator = "Add"
                 /\ Negations(nodes, nodes[n].children[1]) = LeadingPrefixes(arg)
                 /\ Negations(nodes, nodes[n].children[2]) = LeadingPrefixes(rest)


\* The formula is a call and the cell's frame has just taken the call's
\* tokens: it waits for the function, and nothing else has happened.
Called ==
    /\ arg \in CallStreams
    /\ pc = "loop" /\ Len(stack) = 1 /\ finalLog = <<>> /\ pushLog = <<>>
    /\ stack[1].next_reference.mode = "function"

\* The tokens behind the opening of the call.
Input == GroupText(Tail(arg))

\* The place in Input of the close that matches the opening.
MatchingClose == CHOOSE k \in DOMAIN Input :
                    /\ DepthAfter(Input, k) < 0
                    /\ \A j \in 1..(k - 1) : DepthAfter(Input, j) >= 0

\* The tokens between the opening and its matching close.
Body == SubSeq(Input, 1, MatchingClose - 1)

\* The groups the call was split into.
Groups == [i \in DOMAIN stack[1].next_reference.args |-> GroupText(stack[1].next_reference.args[i])]

\* The groups put together again, a separator between two neighbours.
RECURSIVE Join(_)
Join(groups) ==
    IF groups = <<>> THEN <<>>
    ELSE IF Len(groups) = 1 THEN groups[1]
    ELSE groups[1] \o <<TokText(SepTok)>> \o Join(Tail(groups))

\* The separators of depth 0 of a stream.
TopSeparators(tokens) ==
    {k \in DOMAIN tokens : tokens[k] = TokText(SepTok) /\ DepthAfter(tokens, k) = 0}

\* The body ends where an empty last group begins.
EndsEmpty(tokens) == tokens = <<>> \/ Len(tokens) \in TopSeparators(tokens)

\* What C28 says of the split apart from the round trip: the consumed tokens
\* end at the matching close and nothing behind it is taken, every group is
\* balanced and holds no separator of depth 0, and only an empty last group
\* is dropped.
SplitAtTopSeparators ==
    /\ GroupText(stack[1].tokens) = SubSeq(Input, MatchingClose + 1, Len(Input))
    /\ \A i \in DOMAIN Groups : Balanced(Groups[i]) /\ TopSeparators(Groups[i]) = {}
    /\ Len(Groups) = IF EndsEmpty(Body) THEN Cardinality(TopSeparators(Body))
                     ELSE Cardinality(TopSeparators(Body)) + 1

\* C28 as stated: consume_until_matching_paren consumes up to the close that
\* matches the opening and nothing behind it, splits at the separators of
\* depth 0 only, keeps the groups in source order with their nested brackets
\* balanced, drops only an empty last group, and the groups joined by
\* separators are the consumed tokens again.
C28_JoinedGroupsAreTheBody ==
    Called => SplitAtTopSeparators /\ Join(Groups) = Body

\* C28: as above, but the groups joined by separators are the consumed
\* tokens without the separator that stands directly before the close: that
\* separator is consumed with the empty last group and is in no group.
C28_JoinedGroupsAreTheBodyButALastSeparator ==
    Called =>
        /\ SplitAtTopSeparators
        /\ Join(Groups) = IF Body # <<>> /\ EndsEmpty(Body)
                          THEN SubSeq(Body, 1, Len(Body) - 1) ELSE Body

\* C28 witness: SUM((,),)+2 -- one group that keeps its own separator
\* and brackets, the separator before the close dropped, and +2 left.
C28_Witness ==
    /\ Called
    /\ Body = GroupText(<<ParenOpen, SepTok, ParenClose, SepTok>>)
    /\ Groups = <<GroupText(<<ParenOpen, SepTok, ParenClose>>)>>
    /\ GroupText(stack[1].tokens) = GroupText(<<InfixTok("+"), NumTok("2")>>)

\* The reverse-Polish list a token frame hands to its evaluation.
RpnOf(f) == f.output_stack \o [k \in DOMAIN f.operator_stack |-> OpElem(Reverse(f.operator_stack)[k])]

\* The number of nodes the evaluation of a reverse-Polish list leaves when
\* it starts with n nodes, 0 - 1 if an operator finds fewer than two.
RECURSIVE Residual(_, _)
Residual(elems, n) ==
    IF elems = <<>> THEN n
    ELSE IF Head(elems).isNode THEN Residual(Tail(elems), n + 1)
    ELSE IF n < 2 THEN 0 - 1
    ELSE Residual(Tail(elems), n - 1)

\* The top frame is a token-stream frame that has no token left.
TokenFrameDone ==
    /\ pc = "loop" /\ stack # <<>>
    /\ IsTokenFrame(stack[Len(stack)])
    /\ stack[Len(stack)].next_reference = NoKey

\* C29: when the main loop finalizes a token-stream frame, a node is stored
\* for the frame's key only if the reverse-Polish evaluation leaves exactly
\* one node, and then the frame is popped; if it leaves no node or several,
\* or an operator finds fewer than two operands, the run fails with an
\* error, the frame stays and the memo table has no node for the key.
C29_FinalizeNeedsOneResidualNode ==
    [][TokenFrameDone =>
        LET f == stack[Len(stack)]
            left == Residual(RpnOf(f), 0)
        IN  /\ left # 1 =>
                /\ pc' = "failed" /\ err' \in {"AssertionError", "IndexError"}
                /\ references' = references /\ ~MemoHas(references', f.ref)
                /\ stack' = stack
            /\ pc' # "failed" =>
                /\ left = 1
                /\ MemoHas(references', f.ref)
                /\ nodes'[MemoGet(references', f.ref)].kind # "Output"
                /\ Len(stack') = Len(stack) - 1
            /\ (left = 1 /\ f.next_prefix = "") => pc' # "failed"]_vars

\* C29 witness: SUM(,1) has failed on the frame of its empty first
\* argument, which is still on the stack and has no node in the memo table.
C29_Witness ==
    /\ pc = "failed" /\ err = "AssertionError"
    /\ Len(stack) = 3
    /\ stack[3].cls = "Nested" /\ stack[3].next_reference = NoKey
    /\ Residual(RpnOf(stack[3]), 0) = 0
    /\ ~MemoHas(references, stack[3].ref)
    /\ arg = <<FuncOpen("SUM("), SepTok, NumTok("1"), FuncClose>>
(***************************************************************************)
(* Properties of Shape.merge (SpecShape)                                   *)
(***************************************************************************)
\* C7: whenever merge(a, b) succeeds its result has height
\* max(a.height, b.height) and width max(a.width, b.width).
C7_MergeIsMaxOfExtents ==
    (spc # "start" /\ mAB.ok)
        => mAB.shape = Shape(Max(shA.height, shB.height), Max(shA.width, shB.width))

\* C8: merge is commutative: merge(a, b) fails exactly when merge(b, a)
\* fails, and when both succeed they give the same shape.
C8_MergeCommutative ==
    spc # "start" => (mAB.ok = mBA.ok /\ (mAB.ok => mAB.shape = mBA.shape))

\* Two vectors of opposite orientation have been merged both ways.
C8_Witness ==
    /\ spc = "pair"
    /\ mAB.ok /\ mBA.ok
    /\ is_vector(shA) /\ is_vector(shB)
    /\ vertical(shA) # vertical(shB)

\* C9: merge is associative where defined: when merge(merge(a, b), c) and
\* merge(a, merge(b, c)) both succeed, they give the same shape.
C9_MergeAssociative ==
    (spc = "triple" /\ mAB_C.ok /\ mA_BC.ok) => mAB_C.shape = mA_BC.shape

\* Both nestings have succeeded on three different shapes, none a scalar.
C9_Witness ==
    /\ spc = "triple"
    /\ mAB_C.ok /\ mA_BC.ok
    /\ ~is_scalar(shA) /\ ~is_scalar(shB) /\ ~is_scalar(shC)
    /\ shA # shB /\ shB # shC /\ shA # shC

(***************************************************************************)
(* Properties of optimize_graph (SpecOpt)                                  *)
(***************************************************************************)
\* C5: when disable_optimizations is a set of pass names, the passes that
\* have run at the return are exactly the passes not named, in pipeline order.
C5_NamedPassesSkipped ==
    (optPc = "returned" /\ ~disable_optimization.isBool)
        => passLog = SelectSeq(OPTIMIZATION_LIST,
                               LAMBDA name : name \notin disable_optimization.names)

\* C6: with disable_optimizations False the four passes have each run once,
\* in the order collapse_literals, merge_array, array_inplace,
\* lazy_conditional; with disable_optimizations True no pass has run.
C6_BoolFlagRunsAllOrNone ==
    (optPc = "returned" /\ disable_optimization.isBool)
        => passLog = IF disable_optimization.b THEN <<>>
                     ELSE <<"collapse_literals", "merge_array", "array_inplace",
                            "lazy_conditional">>

\* optimize_graph has returned for disable_optimizations False.
C6_Witness ==
    /\ optPc = "returned"
    /\ disable_optimization = PyBool(FALSE)
    /\ Len(passLog) = 4

(***************************************************************************)
(* Properties of the compiler (Spec, FairSpec)                             *)
(***************************************************************************)
\* C1: in one run of the main loop no two frames are built for equal keys,
\* no key is finalized twice, and every delivery of a key from the memo
\* table hands over the same node.
C1_OneFramePerKey ==
    /\ \A i, j \in DOMAIN frameLog : i # j => ~KeyEq(frameLog[i], frameLog[j])
    /\ \A i, j \in DOMAIN finalLog : i # j => ~KeyEq(finalLog[i][1], finalLog[j][1])
    /\ \A i, j \in DOMAIN pushLog :
          KeyEq(pushLog[i][1], pushLog[j][1]) => pushLog[i][2] = pushLog[j][2]

OutputsInMemo == \A i \in DOMAIN outputs : MemoHas(references, RangeKey(outputs[i].v))

\* C2: the main loop, once started, comes to its end - the stack is empty,
\* or a frame has raised a compile error - and whenever the stack is empty
\* the key of every declared output is in the memo table.
C2_LoopEmptiesStack ==
    /\ (pc = "loop") ~> (stack = <<>> \/ (pc = "failed" /\ err # "MemoryError"))
    /\ []((pc = "loop" /\ stack = <<>>) => OutputsInMemo)

\* C3: two keys that denote the same range, the same function name with
\* token-for-token identical argument groups, or the same parenthesized
\* token group are equal keys.
C3_StructuralKeyEquality ==
    \A i, j \in DOMAIN frameLog :
        SameText(frameLog[i], frameLog[j]) => KeyEq(frameLog[i], frameLog[j])

\* C4: after a successful compile the keys of the returned mapping are
\* exactly the declared output names.
C4_ResultKeysAreOutputNames ==
    pc = "compiled" => result_keys = DictKeys(outputs)

\* A BinOp or Comparison node whose operand shapes do not merge.
Unmergeable(ns, n) ==
    /\ ns[n].kind \in {"BinOp", "Comparison"}
    /\ LET l == NodeShape(ns, ns[n].children[1])
           r == NodeShape(ns, ns[n].children[2])
       IN  l.ok /\ r.ok /\ ~Merge(l.shape, r.shape).ok

\* C10: no compile succeeds with a BinOp or Comparison node whose operand
\* shapes do not merge reachable from an output.
C10_NoUnmergeableOperands ==
    pc = "compiled" =>
        \A i \in DOMAIN graph : \A n \in Descendants(nodes, graph[i].node) :
            ~Unmergeable(nodes, n)

(***************************************************************************)
(* Properties of the set-up check and of declared inputs (Spec)            *)
(***************************************************************************)
\* C11: when _gen_ast is entered with no declared output or no declared
\* input, it ends with the set-up error, no frame has been created, no memo
\* entry written and the declared inputs and outputs are as they were.
C11_SetupErrorBeforeAnyWork ==
    [][(pc = "setup" /\ pc' # "setup" /\ (Len(outputs) = 0 \/ Len(inputs) = 0))
        => /\ pc' = "failed" /\ err' = "AttributeError"
           /\ stack' = <<>> /\ references' = <<>> /\ frameLog' = <<>> /\ nodes' = <<>>
           /\ UNCHANGED <<outputs, output_cells, inputs, input_cells>>]_vars

C11_Witness ==
    /\ pc = "failed" /\ err = "AttributeError"
    /\ Len(outputs) = 2 /\ Len(inputs) = 0
    /\ stack = <<>> /\ references = <<>>

\* C12: a cell declared as an input is never compiled from its own content:
\* once the loop has started its key is in the memo table and maps to the
\* Input node, no frame was created for the key, and every frame that
\* requested the key received the Input node.
C12_InputNeverCompiled ==
    pc \in {"loop", "codegen", "compiled"} =>
        \A i \in DOMAIN inputs :
            LET k == RangeKey(inputs[i].v)
            IN  /\ MemoHas(references, k)
                /\ nodes[MemoGet(references, k)].kind = "Input"
                /\ \A j \in DOMAIN frameLog : ~KeyEq(frameLog[j], k)
                /\ \A j \in DOMAIN pushLog :
                       KeyEq(pushLog[j][1], k) => nodes[pushLog[j][2]].kind = "Input"

\* The nodes reachable from the nodes the memo table holds for the declared
\* outputs (the children of the Output wrappers of the graph).
ReachableFromOutputs ==
    UNION {Descendants(nodes, nodes[graph[i].node].children[1]) : i \in DOMAIN graph}

\* C13: when the main loop has ended, no two distinct nodes reachable from
\* the declared outputs have the same name.
C13_NodeNamesUnique ==
    pc \in {"codegen", "compiled"} =>
        \A n1, n2 \in ReachableFromOutputs :
            n1 # n2 => nodes[n1].varname # nodes[n2].varname

(***************************************************************************)
(* Properties of the frame protocol and of function-call keys (Spec)       *)
(***************************************************************************)
\* C20: the node a frame receives for a function-call key is the node that
\* compiling the call in the frame's own active cell produces: a frame that
\* requests ROW() receives a Literal holding the row of its own cell.
C20_FunctionNodeFromOwnCell ==
    \A j \in DOMAIN pushLog :
        LET k == pushLog[j][1]
        IN  (k.mode = "function" /\ FnName(k.name) = "ROW") =>
                /\ nodes[pushLog[j][2]].kind = "Literal"
                /\ nodes[pushLog[j][2]].value = Rat(RefRow(k.active_cell), 1)

\* A frame without the counter that next_idx advances.
SansIdx(f) == [f EXCEPT !.idx = 0]

\* One iteration of _compiler_loop that did not raise.
LoopIteration == pc = "loop" /\ pc' = "loop" /\ stack # <<>>

\* finalize is called on the top frame only when its next_reference() is
\* None; its node is stored under its key and the frame is popped.
FinalizeProtocol ==
    LET top == Len(stack)
    IN  Len(finalLog') > Len(finalLog) =>
            /\ next_reference(stack[top]) = NoKey
            /\ Len(stack') = top - 1
            /\ finalLog'[Len(finalLog')][1] = stack[top].ref
            /\ MemoHas(references', stack[top].ref)
            /\ MemoGet(references', stack[top].ref) = finalLog'[Len(finalLog')][2]
            /\ (top > 1 /\ next_reference(stack[top - 1]) # NoKey
                        /\ KeyEq(next_reference(stack[top - 1]), stack[top].ref))
                   => /\ KeyEq(next_reference(stack'[top - 1]), stack[top].ref)
                      /\ MemoHas(references', next_reference(stack'[top - 1]))

\* push_node is called on the top frame only, with the memoized node of the
\* key the frame returned from next_reference(); the frame advances by that
\* one dependency.
PushProtocol ==
    LET top == Len(stack)
        f == stack[top]
        k == next_reference(f)
    IN  Len(pushLog') > Len(pushLog) =>
            /\ k # NoKey /\ MemoHas(references, k)
            /\ pushLog'[Len(pushLog')] = <<k, MemoGet(references, k)>>
            /\ Len(stack') = top
            /\ IF IsTokenFrame(f)
               THEN /\ Len(stack'[top].output_stack) > Len(f.output_stack)
                    /\ SubSeq(stack'[top].output_stack, 1, Len(f.output_stack)) = f.output_stack
                    /\ Len(stack'[top].tokens) <= Len(f.tokens)
               ELSE stack'[top].args = Append(f.args, MemoGet(references, k))

\* A new frame is pushed for the key the top frame requested, and the top
\* frame keeps requesting that key.
NewFrameProtocol ==
    LET top == Len(stack)
        k == next_reference(stack[top])
    IN  Len(stack') = top + 1 =>
            /\ k # NoKey /\ ~MemoHas(references, k)
            /\ KeyEq(stack'[top + 1].ref, k)
            /\ next_reference(stack'[top]) = k

\* C19, as stated: in every step of the main loop only the top frame of the
\* stack is touched, finalize and push_node follow the protocol, and a
\* requester keeps requesting the same key until it is pushed.
C19_OnlyTopFrameTouched ==
    [][LoopIteration =>
        /\ \A i \in 1..(Len(stack) - 1) : stack'[i] = stack[i]
        /\ FinalizeProtocol /\ PushProtocol /\ NewFrameProtocol]_vars

\* C19, amended: the frames below the top are left as they were except for
\* the name counter of the enclosing cell frame, which a nested or function
\* frame advances through next_idx(); the rest of the protocol holds.
C19_OnlyTopFrameCalled ==
    [][LoopIteration =>
        /\ \A i \in 1..(Len(stack) - 1) : SansIdx(stack'[i]) = SansIdx(stack[i])
        /\ FinalizeProtocol /\ PushProtocol /\ NewFrameProtocol]_vars

\* A function frame was popped and its requester, two frames deep, received
\* the node from the memo table.
C19_Witness ==
    /\ pc = "loop" /\ Len(stack) >= 2
    /\ \E j \in DOMAIN finalLog : finalLog[j][1].mode = "function"
    /\ \E j \in DOMAIN pushLog : pushLog[j][1].mode = "function"
    /\ \E j \in DOMAIN pushLog : pushLog[j][1].mode = "paren"

(***************************************************************************)
(* Specifications                                                          *)
(***************************************************************************)
InitShape == ShapeInit /\ OptIdle /\ CompIdle /\ PassIdle

ShapeNext ==
    \/ MergePair /\ UNCHANGED <<optVars, compVars, passVars>>
    \/ MergeTriple /\ UNCHANGED <<optVars, compVars, passVars>>

SpecShape == InitShape /\ [][ShapeNext]_vars

InitOpt == OptInit /\ ShapeIdle /\ CompIdle /\ PassIdle

OptNext ==
    \/ OptRunPass /\ UNCHANGED <<shapeVars, compVars, passVars>>
    \/ OptSkipPass /\ UNCHANGED <<shapeVars, compVars, passVars>>
    \/ OptReturn /\ UNCHANGED <<shapeVars, compVars, passVars>>

SpecOpt == InitOpt /\ [][OptNext]_vars

Init == CompInit /\ ShapeIdle /\ OptIdle /\ PassIdle

LoopStep == LoopFinalize \/ LoopMemoHit \/ LoopNew

Next ==
    \/ AddOutput /\ UNCHANGED <<shapeVars, optVars, passVars>>
    \/ AddInput /\ UNCHANGED <<shapeVars, optVars, passVars>>
    \/ GenAstSetupError /\ UNCHANGED <<shapeVars, optVars, passVars>>
    \/ GenAstStart /\ UNCHANGED <<shapeVars, optVars, passVars>>
    \/ LoopFinalize /\ UNCHANGED <<shapeVars, optVars, passVars>>
    \/ LoopMemoHit /\ UNCHANGED <<shapeVars, optVars, passVars>>
    \/ LoopNew /\ UNCHANGED <<shapeVars, optVars, passVars>>
    \/ BuildGraph /\ UNCHANGED <<shapeVars, optVars, passVars>>
    \/ GenBody /\ UNCHANGED <<shapeVars, optVars, passVars>>

Spec == Init /\ [][Next]_vars

\* The workbooks of FairSpec: B2 holds =A1+1, and B1 holds =A1+1 or the
\* circular =B1*2.
FairWorkbooks == {w \in Workbooks : w["B2"] = 1 /\ w["B1"] \in {1, 2}}

FairInit == CompInit /\ wb \in FairWorkbooks /\ ShapeIdle /\ OptIdle /\ PassIdle

\* The while loop of _compiler_loop runs on as long as it has a step to take.
FairSpec == FairInit /\ [][Next]_vars /\ WF_vars(LoopStep /\ UNCHANGED <<shapeVars, optVars, passVars>>)

InitPass == PassInit /\ ShapeIdle /\ OptIdle

PassNext ==
    \/ CollapseLiterals /\ UNCHANGED <<shapeVars, optVars>>
    \/ MergeArray /\ UNCHANGED <<shapeVars, optVars>>
    \/ ArrayInplace /\ UNCHANGED <<shapeVars, optVars>>
    \/ LazyConditional /\ UNCHANGED <<shapeVars, optVars>>
    \/ EmitBody /\ UNCHANGED <<shapeVars, optVars>>

SpecPass == InitPass /\ [][PassNext]_vars

InitShared == SharedInit /\ ShapeIdle /\ OptIdle

SpecShared == InitShared /\ [][PassNext]_vars

InitReplace == SingleInit /\ ShapeIdle /\ OptIdle

\* A pass runs only while no call of replace_in_graph has been looked at.
ReplaceNext ==
    \/ ret = <<>> /\ PassNext
    \/ ReplaceByFresh /\ UNCHANGED <<shapeVars, optVars>>
    \/ ReplaceByNode /\ UNCHANGED <<shapeVars, optVars>>

SpecReplace == InitReplace /\ [][ReplaceNext]_vars

InitTokens == TokensInit /\ ShapeIdle /\ OptIdle

TokensNext ==
    \/ GenAstStart /\ UNCHANGED <<shapeVars, optVars, passVars>>
    \/ LoopFinalize /\ UNCHANGED <<shapeVars, optVars, passVars>>
    \/ LoopMemoHit /\ UNCHANGED <<shapeVars, optVars, passVars>>
    \/ LoopNew /\ UNCHANGED <<shapeVars, optVars, passVars>>
    \/ BuildGraph /\ UNCHANGED <<shapeVars, optVars, passVars>>

SpecTokens == InitTokens /\ [][TokensNext]_vars

====
